---------------------------- MODULE Spec2Model ----------------------------
(***************************************************************************)
(* Model of the verbaltest decorator library: the metadata registry        *)
(* (MetadataStorage), the method and class decorators that file records    *)
(* in it, the suite() decorator that buckets and registers the members of  *)
(* a class, and the test callbacks that look up the API options and call   *)
(* processApiRequest.                                                      *)
(*                                                                         *)
(* JavaScript objects are modelled with their identity: `heap` holds the   *)
(* DecoratorMetadata objects, the registry maps tokens to references into  *)
(* it, and a decorator that mutates `metadata.options...` in place changes *)
(* the one heap cell every token filed under that object sees.  An object  *)
(* literal `{a: 1}` is a function whose DOMAIN is the set of properties    *)
(* present, so "absent" and "present" are distinguished as in the code.    *)
(*                                                                         *)
(* Decorators are applied the way the language applies them: the method    *)
(* decorators of a class run while the class is being defined, bottom-up,  *)
(* then its class decorators, then the next class is defined.              *)
(***************************************************************************)
EXTENDS Integers, Sequences, FiniteSets, TLC

(***************************************************************************)
(* Bounds of the model.                                                    *)
(***************************************************************************)
\* decorator applications (method or class level, suite() aside) in all
MaxDecorations == 2
\* the same, when the decorators come in the README's documented order
MaxDocumented == 3
\* readings of the millisecond clock Date.now() after the first
MaxClock == 1
\* describe blocks registered with the runner
MaxDescribes == 1

(***************************************************************************)
(* The universe: two classes, each declaring one method of the same name.  *)
(* A function token is the method's function object (descriptor.value,     *)
(* which is also prototype[propertyKey]); a key token is the property-key  *)
(* string; a class token is the constructor.                               *)
(***************************************************************************)
Classes == {"A", "B"}
Fns == {"fA", "fB"}
Keys == {"m"}
Tokens == Fns \cup Keys \cup Classes

\* a third class, whose run is followed hook by hook: four methods
SuiteMethods == <<"f1", "f2", "f3", "f4">>
SuiteNames == [f1 |-> "m1", f2 |-> "m2", f3 |-> "m3", f4 |-> "m4"]

ClassOf(fn) == IF fn = "fA" THEN "A" ELSE IF fn = "fB" THEN "B" ELSE "S"
\* propertyKey of the method, which is also Function.name of its function
NameOf(fn) == IF fn \in DOMAIN SuiteNames THEN SuiteNames[fn] ELSE "m"
\* Function.name of a function-typed token (a method or a constructor)
FunctionName(t) == IF t \in Fns \cup DOMAIN SuiteNames THEN NameOf(t) ELSE t
\* the tokens that are functions: the methods and the constructors
Functions == Fns \cup DOMAIN SuiteNames \cup Classes \cup {"S"}
MethodsOf(c) == {fn \in Fns : ClassOf(fn) = c}

HookNames == {"beforeAll", "beforeEach", "afterEach", "afterAll"}

(***************************************************************************)
(* Object literals.                                                        *)
(***************************************************************************)
EmptyObj == [x \in {} |-> TRUE]
Put(obj, k, v) == [x \in (DOMAIN obj) \cup {k} |-> IF x = k THEN v ELSE obj[x]]
Field(obj, k) == IF k \in DOMAIN obj THEN obj[k] ELSE EmptyObj
\* {...a, ...b}
Spread(a, b) == [x \in (DOMAIN a) \cup (DOMAIN b) |-> IF x \in DOMAIN b THEN b[x] ELSE a[x]]

NewMetadata(type, name, options) == [type |-> type, name |-> name, options |-> options]

\* the values the decorators are given
TestOptionChoices == {EmptyObj, [only |-> TRUE]}
MethodChoices == {"GET"}
PathChoices == {"/users/{id}"}
PathParamChoices == {[id |-> "1"]}
QueryParamChoices == {[limit |-> "3"]}
HeaderChoices == {[Accept |-> "application/json"]}
BodyChoices == {[name |-> "John"]}
StatusChoices == {200, 404}
BodyPathChoices == {"id"}
SchemaChoices == {[type |-> "object"]}
TagChoices == {<<"smoke">>}

(***************************************************************************)
(* MetadataStorage: a Map from token to metadata object.  A JavaScript Map *)
(* iterates in insertion order of its keys, and set() on a present key     *)
(* replaces the value in place.  The Map is a sequence of entries.         *)
(***************************************************************************)
NoRef == 0

MapHas(m, t) == \E i \in 1..Len(m) : m[i].token = t
MapGet(m, t) == IF MapHas(m, t) THEN m[CHOOSE i \in 1..Len(m) : m[i].token = t].ref ELSE NoRef
MapSet(m, t, r) ==
    IF MapHas(m, t)
    THEN [i \in 1..Len(m) |-> IF m[i].token = t THEN [token |-> t, ref |-> r] ELSE m[i]]
    ELSE Append(m, [token |-> t, ref |-> r])

\* a store that keeps the record a token already has
storeKeepingFirst(m, target, ref) == IF MapHas(m, target) THEN m ELSE MapSet(m, target, ref)
\* a store that deletes the token and files it again at the end
storeAtEnd(m, target, ref) ==
    Append(SelectSeq(m, LAMBDA e : e.token # target), [token |-> target, ref |-> ref])

\* MetadataStorage.store / get / has / getAll
store(m, target, ref) == MapSet(m, target, ref)
get(m, target) == MapGet(m, target)
has(m, target) == MapHas(m, target)
getAll(m) == m

RECURSIVE StoreAll(_, _)
\* the store calls of one decorator application, in program order
StoreAll(m, calls) ==
    IF calls = <<>> THEN m
    ELSE StoreAll(store(m, Head(calls)[1], Head(calls)[2]), Tail(calls))

(***************************************************************************)
(* The decorators.  Each takes the registry and the heap and yields the    *)
(* heap after its in-place mutations and allocations, and the store calls  *)
(* it makes, in order.  A reference past the end of the heap is a fresh    *)
(* object.                                                                 *)
(***************************************************************************)
Fresh(hp) == Len(hp) + 1

\* `getMetadataStorage().get(originalMethod) || {type: 'test', name, options: {}}`
\* yields the reference and the heap holding the object
GetOrCreate(m, hp, fn) ==
    IF has(m, fn)
    THEN [ref |-> get(m, fn), hp |-> hp]
    ELSE [ref |-> Fresh(hp), hp |-> Append(hp, NewMetadata("test", NameOf(fn), EmptyObj))]

\* `if (!metadata.options.api) metadata.options.api = {}` then the api object
ApiOf(rec) == Field(rec.options, "api")
\* metadata.options.api = api, in place
WithApi(hp, ref, api) == [hp EXCEPT ![ref].options = Put(@, "api", api)]

\* a decorator that sets one property of metadata.options.api and stores
\* the object under the method function only
SetApiField(m, hp, fn, k, v) ==
    LET g == GetOrCreate(m, hp, fn)
    IN  [hp |-> WithApi(g.hp, g.ref, Put(ApiOf(g.hp[g.ref]), k, v)),
         stores |-> << <<fn, g.ref>> >>]

\* a decorator that sets one property of metadata.options.api.expect
SetExpectField(m, hp, fn, k, v) ==
    LET g == GetOrCreate(m, hp, fn)
        api == ApiOf(g.hp[g.ref])
    IN  [hp |-> WithApi(g.hp, g.ref, Put(api, "expect", Put(Field(api, "expect"), k, v))),
         stores |-> << <<fn, g.ref>> >>]

\* a decorator that sets one property of metadata.options.api and stores the
\* same object under the function (three times) and under the property key
SetApiFieldEverywhere(m, hp, fn, k, v) ==
    LET g == GetOrCreate(m, hp, fn)
    IN  [hp |-> WithApi(g.hp, g.ref, Put(ApiOf(g.hp[g.ref]), k, v)),
         stores |-> << <<fn, g.ref>>, <<fn, g.ref>>, <<fn, g.ref>>, <<NameOf(fn), g.ref>> >>]

\* test(options): files a new record, whatever was there
test(m, hp, fn, options) ==
    [hp |-> Append(hp, NewMetadata("test",
                                   IF "name" \in DOMAIN options THEN options.name ELSE NameOf(fn),
                                   options)),
     stores |-> << <<fn, Fresh(hp)>> >>]

\* beforeAll / beforeEach / afterEach / afterAll (options = {})
hook(m, hp, fn, hookName) ==
    [hp |-> Append(hp, NewMetadata("hook", hookName, EmptyObj)),
     stores |-> << <<fn, Fresh(hp)>> >>]

\* skip(reason) on a method: files a new test record
skip(m, hp, fn) ==
    [hp |-> Append(hp, NewMetadata("test", NameOf(fn), [skip |-> TRUE, skipReason |-> ""])),
     stores |-> << <<fn, Fresh(hp)>> >>]

\* only() / tag(tags) / slow(reason) on a target (a method function or a
\* constructor): `metadata.options = {...metadata.options, ...extra}` on the
\* record there is, or a new record of the kind given
MergeOptions(m, hp, target, kind, extra) ==
    IF has(m, target)
    THEN [hp |-> [hp EXCEPT ![get(m, target)].options = Spread(@, extra)],
          stores |-> << <<target, get(m, target)>> >>]
    ELSE [hp |-> Append(hp, NewMetadata(kind, FunctionName(target), extra)),
          stores |-> << <<target, Fresh(hp)>> >>]

only(m, hp, target, kind) == MergeOptions(m, hp, target, kind, [only |-> TRUE])
tag(m, hp, target, kind, tags) == MergeOptions(m, hp, target, kind, [tags |-> tags])
slow(m, hp, target, kind) == MergeOptions(m, hp, target, kind, [slow |-> TRUE, slowReason |-> ""])

\* skip(reason) on a class: files a new suite record
skipClass(m, hp, c) ==
    [hp |-> Append(hp, NewMetadata("suite", c, [skip |-> TRUE, skipReason |-> ""])),
     stores |-> << <<c, Fresh(hp)>> >>]

\* ApiEndpoint(method, path) on a method
ApiEndpoint(m, hp, fn, method, path) ==
    LET g == GetOrCreate(m, hp, fn)
        api == Put(Put(ApiOf(g.hp[g.ref]), "method", method), "path", path)
        hp1 == WithApi(g.hp, g.ref, api)
        keyRef == Fresh(hp1)
        hp2 == Append(hp1, NewMetadata("test", NameOf(fn),
                                       [api |-> [method |-> method, path |-> path]]))
        suiteRef == Fresh(hp2)
        hp3 == Append(hp2, NewMetadata("suite", ClassOf(fn), [hasApiTests |-> TRUE]))
    IN  [hp |-> hp3,
         stores |-> << <<fn, g.ref>>, <<fn, g.ref>>, <<fn, g.ref>>,
                       <<NameOf(fn), keyRef>>, <<ClassOf(fn), suiteRef>> >>]

PathParams(m, hp, fn, params) == SetApiField(m, hp, fn, "pathParams", params)
QueryParams(m, hp, fn, params) == SetApiField(m, hp, fn, "queryParams", params)
Headers(m, hp, fn, headers) == SetApiFieldEverywhere(m, hp, fn, "headers", headers)
RequestBody(m, hp, fn, body) == SetApiFieldEverywhere(m, hp, fn, "body", body)
ExpectStatus(m, hp, fn, status) == SetExpectField(m, hp, fn, "status", status)

\* ExpectBody(path).toBeDefined(): expect.body[path] = {assertion}
ExpectBody(m, hp, fn, path, assertion) ==
    LET g == GetOrCreate(m, hp, fn)
        api == ApiOf(g.hp[g.ref])
        expect == Field(api, "expect")
        body == Put(Field(expect, "body"), path, assertion)
    IN  [hp |-> WithApi(g.hp, g.ref, Put(api, "expect", Put(expect, "body", body))),
         stores |-> << <<fn, g.ref>> >>]

\* ExpectSchema(schema): api = {...api, expect: {...expect, schema}}
ExpectSchema(m, hp, fn, schema) ==
    LET g == GetOrCreate(m, hp, fn)
        api == ApiOf(g.hp[g.ref])
    IN  [hp |-> WithApi(g.hp, g.ref,
                        Spread(api, [expect |-> Spread(Field(api, "expect"), [schema |-> schema])])),
         stores |-> << <<fn, g.ref>> >>]


(***************************************************************************)
(* Resolution, as suite() performs it.                                     *)
(***************************************************************************)
\* Object.getOwnPropertyNames(prototype) filtered to functions, in
\* declaration order ('constructor' is filed, if at all, as a suite, so it
\* lands in no bucket and is left out here)
MethodSeq(c) == IF c = "A" THEN <<"fA">> ELSE IF c = "B" THEN <<"fB">> ELSE SuiteMethods

RECURSIVE SelectSeq2(_, _, _, _)
\* methods.filter(...): the methods of `ms` whose record is of the kind
\* (and, for a hook, the name) asked for
SelectSeq2(ms, m, hp, want) ==
    IF ms = <<>> THEN <<>>
    ELSE LET fn == Head(ms)
             keep == /\ has(m, fn)
                     /\ hp[get(m, fn)].type = want.type
                     /\ (want.type = "hook" => hp[get(m, fn)].name = want.name)
         IN  (IF keep THEN <<fn>> ELSE <<>>) \o SelectSeq2(Tail(ms), m, hp, want)

\* a filter that takes every hook, whatever its name
HookMethodsOfAnyName(c, m, hp, hookName) ==
    SelectSeq(MethodSeq(c), LAMBDA fn : has(m, fn) /\ hp[get(m, fn)].type = "hook")

HookMethods(c, m, hp, hookName) ==
    SelectSeq2(MethodSeq(c), m, hp, [type |-> "hook", name |-> hookName])
TestMethods(c, m, hp) ==
    SelectSeq2(MethodSeq(c), m, hp, [type |-> "test", name |-> ""])

\* a registration that looks at skip before only
RegistrationSkipFirst(m, hp, fn) ==
    LET ref == get(m, fn)
        testOptions == hp[ref].options
        isOnly == "only" \in DOMAIN testOptions /\ testOptions.only = TRUE
        isSkip == "skip" \in DOMAIN testOptions /\ testOptions.skip = TRUE
        isSlow == "slow" \in DOMAIN testOptions /\ testOptions.slow = TRUE
    IN  [fn |-> fn, metadata |-> ref,
         isOnly |-> isOnly, isSkip |-> isSkip, isSlow |-> isSlow,
         tags |-> IF "tags" \in DOMAIN testOptions THEN testOptions.tags ELSE <<>>,
         via |-> IF isSkip THEN "skip" ELSE IF isOnly THEN "only" ELSE "test"]

\* the modifiers read off the record of a test method when it is registered
\* and the runner entry point chosen from them
Registration(m, hp, fn) ==
    LET ref == get(m, fn)
        testOptions == hp[ref].options
        isOnly == "only" \in DOMAIN testOptions /\ testOptions.only = TRUE
        isSkip == "skip" \in DOMAIN testOptions /\ testOptions.skip = TRUE
        isSlow == "slow" \in DOMAIN testOptions /\ testOptions.slow = TRUE
    IN  [fn |-> fn, metadata |-> ref,
         isOnly |-> isOnly, isSkip |-> isSkip, isSlow |-> isSlow,
         tags |-> IF "tags" \in DOMAIN testOptions THEN testOptions.tags ELSE <<>>,
         via |-> IF isOnly THEN "only" ELSE IF isSkip THEN "skip" ELSE "test"]

HasApi(hp, ref) == ref # NoRef /\ "api" \in DOMAIN hp[ref].options

\* the first entry of getAll(), in iteration order, whose key is among
\* `keys` and whose record carries options.api; NoRef when there is none
FirstEntry(m, hp, keys) ==
    LET hits == {i \in 1..Len(m) : m[i].token \in keys /\ HasApi(hp, m[i].ref)}
    IN  IF hits = {} THEN NoRef
        ELSE m[CHOOSE i \in hits : \A j \in hits : i <= j].ref

\* a retrieval that goes to the property-key entries before the member's own
\* record
LookupApiKeyFirst(m, hp, fn, metadata) ==
    LET byKey == FirstEntry(m, hp, {NameOf(fn)})
    IN  IF byKey # NoRef THEN byKey
        ELSE IF HasApi(hp, get(m, fn)) THEN get(m, fn)
        ELSE NoRef

\* the API options retrieval of a regular test: the record whose options.api
\* is used (NoRef: apiOptions stays null)
LookupApi(m, hp, fn, metadata) ==
    LET methodName == NameOf(fn)
        byKey == FirstEntry(m, hp, {methodName})
        byName == FirstEntry(m, hp, {t \in Functions : FunctionName(t) = methodName})
    IN  IF HasApi(hp, get(m, fn)) THEN get(m, fn)
        ELSE IF HasApi(hp, metadata) THEN metadata
        ELSE IF byKey # NoRef THEN byKey
        ELSE IF byName # NoRef THEN byName
        ELSE IF HasApi(hp, get(m, fn)) THEN get(m, fn)
        ELSE NoRef

\* `const apiOptions = testOptions.api` of a test registered with test.only
LookupApiOnly(m, hp, fn, metadata) ==
    IF HasApi(hp, metadata) THEN metadata ELSE NoRef

\* a resolution that files what it found under the property key
ResolveStoresCaching(m, hp, fn) ==
    IF has(m, fn) THEN << <<NameOf(fn), get(m, fn)>> >> ELSE <<>>

\* the store calls resolution makes: none
ResolveStores(m, hp, fn) == <<>>

\* apiOptions && apiOptions.method && apiOptions.path ('' is falsy)
Truthy(obj, k) == k \in DOMAIN obj /\ obj[k] # ""
IsApiTest(hp, ref) ==
    /\ ref # NoRef
    /\ Truthy(ApiOf(hp[ref]), "method")
    /\ Truthy(ApiOf(hp[ref]), "path")

\* the object literal handed to processApiRequest: a property is present
\* when apiOptions has it
ApiFields == {"method", "path", "pathParams", "queryParams", "headers", "body", "expect"}
RequestArgs(api) == [k \in (DOMAIN api) \cap ApiFields |-> api[k]]

\* processApiRequest up to the transport call: with a structured body and no
\* content-type among the declared headers, it sets Content-Type on
\* options.headers, which is the headers object of the record
HeadersAfterRequest(api) ==
    IF /\ "body" \in DOMAIN api
       /\ "headers" \in DOMAIN api
       /\ "content-type" \notin DOMAIN api.headers
       /\ "Content-Type" \notin DOMAIN api.headers
    THEN Put(api.headers, "Content-Type", "application/json")
    ELSE Field(api, "headers")


(***************************************************************************)
(* State.                                                                  *)
(***************************************************************************)
VARIABLES
    storage,          \* MetadataStorage.metadata: sequence of [token, ref]
    heap,             \* the metadata objects, by reference
    registeredSuites, \* the module-level Set of suite ids
    now,              \* Date.now()
    phase,            \* "collect": classes are being defined; "run": tests run
    defining,         \* the class being defined, or "none"
    classStage,       \* TRUE once a class decorator of `defining` has run
    defined,          \* the classes whose definition is complete
    describing,       \* the class whose describe callback is due, or "none"
    describes,        \* the describe blocks registered with the runner
    runs,             \* per describe block, per registered test: its run
    current,          \* the test the worker is running: <<d, i>>, or <<>>
    decorations,      \* decorator applications so far
    last,             \* history: the decorator applied last
    mode,             \* "any": decorators in any order; "documented": in
                      \* the order of the README's API example
    applied,          \* history: per method, the decorators applied
    docRank,          \* history: per method, how far the documented order got
    declared,         \* history: per method, the API slices declared
    lastStored,       \* history: per token, the reference of the last store
    firstStored,      \* history: the tokens in the order of their first store
    apiCall,          \* a call of processApiRequest on its own: its position,
                      \* its options, what it built and what came of it
    worker            \* the run of one describe block on its own: the runner's
                      \* position, the instance, the calls made so far

vars == <<storage, heap, registeredSuites, now, phase, defining, classStage,
          defined, describing, describes, runs, current, decorations, last,
          mode, applied, docRank, declared, lastStored, firstStored, apiCall,
          worker>>

regVars == <<storage, heap>>
histVars == <<last, mode, applied, docRank, declared, lastStored, firstStored, decorations>>
classVars == <<defining, classStage, defined>>
suiteVars == <<registeredSuites, describing, describes>>
runVars == <<runs, current>>

\* how many decorators the module under test applies
Limit == IF mode = "documented" THEN MaxDocumented ELSE MaxDecorations

NoOp == [op |-> "none", target |-> "none", tokens |-> {}]

InitWith(md, m, hp, ids) ==
    /\ mode = md
    /\ storage = m
    /\ heap = hp
    /\ registeredSuites = ids
    /\ now = 0
    /\ phase = "collect"
    /\ defining = "none"
    /\ classStage = FALSE
    /\ defined = {}
    /\ describing = "none"
    /\ describes = <<>>
    /\ runs = <<>>
    /\ current = <<>>
    /\ decorations = 0
    /\ last = NoOp
    /\ applied = [fn \in Fns |-> {}]
    /\ docRank = [fn \in Fns |-> 0]
    /\ declared = [fn \in Fns |-> EmptyObj]
    /\ lastStored = [t \in Tokens |-> NoRef]
    /\ firstStored = <<>>

InitIn(md) == InitWith(md, <<>>, <<>>, {})

\* no call of processApiRequest is followed on its own, nor a describe block
NoRequest == [pc |-> "idle"]
NoWorker == [pc |-> "idle"]

Init == InitIn("any") /\ apiCall = NoRequest /\ worker = NoWorker
InitDocumented == InitIn("documented") /\ apiCall = NoRequest /\ worker = NoWorker

(***************************************************************************)
(* History kept beside the program: what was stored, in which order.       *)
(***************************************************************************)
RECURSIVE LastOf(_, _)
LastOf(f, calls) ==
    IF calls = <<>> THEN f
    ELSE LastOf([f EXCEPT ![Head(calls)[1]] = Head(calls)[2]], Tail(calls))

RECURSIVE FirstOf(_, _)
FirstOf(order, calls) ==
    IF calls = <<>> THEN order
    ELSE FirstOf(IF \E i \in 1..Len(order) : order[i] = Head(calls)[1]
                 THEN order ELSE Append(order, Head(calls)[1]),
                 Tail(calls))

TokensOf(calls) == {calls[i][1] : i \in 1..Len(calls)}

\* an object no token is filed under any more is garbage: nothing can reach
\* it, and its cell is cleared
Garbage == [type |-> "garbage", name |-> "", options |-> EmptyObj]
Sweep(hp, m) ==
    [r \in 1..Len(hp) |-> IF \E i \in 1..Len(m) : m[i].ref = r THEN hp[r] ELSE Garbage]

\* the registry and the history after a decorator application `res`
Commit(res, op, target) ==
    /\ storage' = StoreAll(storage, res.stores)
    /\ heap' = Sweep(res.hp, StoreAll(storage, res.stores))
    /\ lastStored' = LastOf(lastStored, res.stores)
    /\ firstStored' = FirstOf(firstStored, res.stores)
    /\ last' = [op |-> op, target |-> target, tokens |-> TokensOf(res.stores)]
    /\ decorations' = decorations + 1

\* a method decorator of `fn` may run now
CanDecorate(fn) ==
    /\ phase = "collect"
    /\ defining = ClassOf(fn)
    /\ ~classStage
    /\ describing = "none"
    /\ decorations < Limit

\* a class decorator of `c` may run now
CanDecorateClass(c) ==
    /\ phase = "collect"
    /\ defining = c
    /\ describing = "none"

\* the place of a decorator in the README's API example, bottom-up:
\* expectations, request parts, ApiEndpoint, test()
Rank(op) ==
    IF op \in {"ExpectStatus", "ExpectBody", "ExpectSchema"} THEN 1
    ELSE IF op \in {"Headers", "RequestBody", "QueryParams", "PathParams"} THEN 2
    ELSE IF op = "ApiEndpoint" THEN 3
    ELSE IF op \in {"test", "testOnly"} THEN 4
    ELSE 5
InOrder(fn, op) ==
    /\ Rank(op) <= 4
    /\ Rank(op) >= docRank[fn]
    /\ Rank(op) >= 3 => Rank(op) > docRank[fn]

MethodStep(fn, res, op, slices) ==
    /\ mode = "documented" => InOrder(fn, op)
    /\ Commit(res, op, fn)
    /\ applied' = [applied EXCEPT ![fn] = @ \cup {op}]
    /\ IF mode = "documented"
       THEN /\ docRank' = [docRank EXCEPT ![fn] = Rank(op)]
            /\ declared' = [declared EXCEPT ![fn] = Spread(@, slices)]
       ELSE UNCHANGED <<docRank, declared>>
    /\ UNCHANGED <<mode, registeredSuites, now, phase, classVars, describing, describes, runVars>>
    /\ UNCHANGED <<apiCall, worker>>

(***************************************************************************)
(* Class definition.                                                       *)
(***************************************************************************)
\* classes are defined in source order
ClassOrder == <<"A", "B">>

BeginClass(c) ==
    /\ phase = "collect"
    /\ defining = "none"
    /\ c \notin defined
    /\ \A i, j \in 1..Len(ClassOrder) :
          (i < j /\ ClassOrder[j] = c) => ClassOrder[i] \in defined
    /\ defining' = c
    /\ UNCHANGED <<regVars, histVars, registeredSuites, now, phase, classStage,
                   defined, describing, describes, runVars>>
    /\ UNCHANGED <<apiCall, worker>>

EndClass ==
    /\ phase = "collect"
    /\ defining # "none"
    /\ describing = "none"
    /\ defined' = defined \cup {defining}
    /\ defining' = "none"
    /\ classStage' = FALSE
    /\ last' = NoOp
    /\ UNCHANGED <<regVars, mode, applied, docRank, declared, lastStored, firstStored,
                   decorations, registeredSuites, now, phase,
                   describing, describes, runVars>>
    /\ UNCHANGED <<apiCall, worker>>

\* the clock advances; only suite() reads it, so its reading matters where a
\* class decorator can come next and a suite id has been taken before
Tick ==
    /\ phase = "collect"
    /\ describing = "none"
    /\ defining # "none"
    /\ classStage
    /\ registeredSuites # {}
    /\ now < MaxClock
    /\ now' = now + 1
    /\ UNCHANGED <<regVars, histVars, registeredSuites, phase, classVars,
                   describing, describes, runVars>>
    /\ UNCHANGED <<apiCall, worker>>

(***************************************************************************)
(* Method decorators.                                                      *)
(***************************************************************************)
ApplyTest(fn, options) ==
    /\ CanDecorate(fn)
    /\ MethodStep(fn, test(storage, heap, fn, options),
                  IF "only" \in DOMAIN options THEN "testOnly" ELSE "test", EmptyObj)

ApplyHook(fn, hookName) ==
    /\ CanDecorate(fn)
    /\ MethodStep(fn, hook(storage, heap, fn, hookName), hookName, EmptyObj)

ApplySkip(fn) ==
    /\ CanDecorate(fn)
    /\ MethodStep(fn, skip(storage, heap, fn), "skip", EmptyObj)

ApplyOnly(fn) ==
    /\ CanDecorate(fn)
    /\ MethodStep(fn, only(storage, heap, fn, "test"), "only", EmptyObj)

ApplyTag(fn, tags) ==
    /\ CanDecorate(fn)
    /\ MethodStep(fn, tag(storage, heap, fn, "test", tags), "tag", EmptyObj)

ApplySlow(fn) ==
    /\ CanDecorate(fn)
    /\ MethodStep(fn, slow(storage, heap, fn, "test"), "slow", EmptyObj)

ApplyApiEndpoint(fn, method, path) ==
    /\ CanDecorate(fn)
    /\ MethodStep(fn, ApiEndpoint(storage, heap, fn, method, path), "ApiEndpoint",
                  [method |-> method, path |-> path])

ApplyPathParams(fn, params) ==
    /\ CanDecorate(fn)
    /\ MethodStep(fn, PathParams(storage, heap, fn, params), "PathParams",
                  [pathParams |-> params])

ApplyQueryParams(fn, params) ==
    /\ CanDecorate(fn)
    /\ MethodStep(fn, QueryParams(storage, heap, fn, params), "QueryParams",
                  [queryParams |-> params])

ApplyHeaders(fn, headers) ==
    /\ CanDecorate(fn)
    /\ MethodStep(fn, Headers(storage, heap, fn, headers), "Headers",
                  [headers |-> headers])

ApplyRequestBody(fn, body) ==
    /\ CanDecorate(fn)
    /\ MethodStep(fn, RequestBody(storage, heap, fn, body), "RequestBody",
                  [body |-> body])

ApplyExpectStatus(fn, status) ==
    /\ CanDecorate(fn)
    /\ MethodStep(fn, ExpectStatus(storage, heap, fn, status), "ExpectStatus",
                  [status |-> status])

ApplyExpectBody(fn, path) ==
    /\ CanDecorate(fn)
    /\ MethodStep(fn, ExpectBody(storage, heap, fn, path, [assertion |-> "toBeDefined"]),
                  "ExpectBody", [expectBody |-> path])

ApplyExpectSchema(fn, schema) ==
    /\ CanDecorate(fn)
    /\ MethodStep(fn, ExpectSchema(storage, heap, fn, schema), "ExpectSchema",
                  [schema |-> schema])


(***************************************************************************)
(* Class decorators.                                                       *)
(***************************************************************************)
ClassStep(c, res, op) ==
    /\ Commit(res, op, c)
    /\ classStage' = TRUE
    /\ UNCHANGED <<registeredSuites, now, phase, defining, defined, describing,
                   describes, runVars, mode, applied, docRank, declared>>
    /\ UNCHANGED <<apiCall, worker>>

ApplySkipClass(c) ==
    /\ CanDecorateClass(c)
    /\ decorations < Limit
    /\ ClassStep(c, skipClass(storage, heap, c), "skip")

ApplyOnlyClass(c) ==
    /\ CanDecorateClass(c)
    /\ decorations < Limit
    /\ ClassStep(c, only(storage, heap, c, "suite"), "only")

ApplyTagClass(c, tags) ==
    /\ CanDecorateClass(c)
    /\ decorations < Limit
    /\ ClassStep(c, tag(storage, heap, c, "suite", tags), "tag")

ApplySlowClass(c) ==
    /\ CanDecorateClass(c)
    /\ decorations < Limit
    /\ ClassStep(c, slow(storage, heap, c, "suite"), "slow")

\* suite(options) with options = {}: the suite id is the name and the clock
\* reading; a suite id seen before returns at once
SuiteId(c) == <<c, now>>

suite(m, hp, c) ==
    [hp |-> Append(hp, NewMetadata("suite", c, EmptyObj)),
     stores |-> << <<c, Fresh(hp)>> >>]

ApplySuite(c) ==
    /\ CanDecorateClass(c)
    /\ classStage' = TRUE
    /\ IF SuiteId(c) \in registeredSuites
       THEN UNCHANGED <<regVars, histVars, registeredSuites, describing>>
       ELSE /\ Len(describes) < MaxDescribes
            /\ registeredSuites' = registeredSuites \cup {SuiteId(c)}
            /\ LET res == suite(storage, heap, c)
               IN  /\ storage' = StoreAll(storage, res.stores)
                   /\ heap' = Sweep(res.hp, StoreAll(storage, res.stores))
                   /\ lastStored' = LastOf(lastStored, res.stores)
                   /\ firstStored' = FirstOf(firstStored, res.stores)
                   /\ last' = [op |-> "suite", target |-> c, tokens |-> TokensOf(res.stores)]
            /\ describing' = c
            /\ UNCHANGED <<decorations, mode, applied, docRank, declared>>
    /\ UNCHANGED <<now, phase, defining, defined, describes, runVars>>
    /\ UNCHANGED <<apiCall, worker>>

\* the callback handed to test.describe, which the runner calls at once:
\* bucket the methods by kind and register the tests
NewRun == [pc |-> "pending", apiOptions |-> NoRef, called |-> FALSE,
           request |-> EmptyObj, args |-> "none"]

\* lines 52-116: the buckets and the registrations of a describe block
Block(c, m, hp) ==
    LET tests == TestMethods(c, m, hp)
    IN  [cls |-> c,
         beforeAll |-> HookMethods(c, m, hp, "beforeAll"),
         beforeEach |-> HookMethods(c, m, hp, "beforeEach"),
         afterEach |-> HookMethods(c, m, hp, "afterEach"),
         afterAll |-> HookMethods(c, m, hp, "afterAll"),
         tests |-> [i \in 1..Len(tests) |-> Registration(m, hp, tests[i])]]

Describe ==
    /\ describing # "none"
    /\ LET block == Block(describing, storage, heap)
       IN  /\ describes' = Append(describes, block)
           /\ runs' = Append(runs, [i \in 1..Len(block.tests) |-> NewRun])
    /\ describing' = "none"
    /\ UNCHANGED <<regVars, histVars, registeredSuites, now, phase, classVars, current>>
    /\ UNCHANGED <<apiCall, worker>>

(***************************************************************************)
(* The run: the worker takes one registered test at a time.                *)
(***************************************************************************)
\* the module has been evaluated, every class is defined: the runner starts
StartRun ==
    /\ phase = "collect"
    /\ defining = "none"
    /\ defined = Classes
    /\ phase' = "run"
    /\ UNCHANGED <<regVars, histVars, registeredSuites, now, classVars,
                   describing, describes, runVars>>
    /\ UNCHANGED <<apiCall, worker>>

TestIds == {<<d, i>> \in (1..Len(describes)) \X (1..Cardinality(Fns)) : i <= Len(describes[d].tests)}
Entry(id) == describes[id[1]].tests[id[2]]
Run(id) == runs[id[1]][id[2]]
SetRun(id, r) == [runs EXCEPT ![id[1]][id[2]] = r]

\* the single worker takes the tests of a file in the order they were
\* registered, leaving out any the run does not select
Before(a, b) == a[1] < b[1] \/ (a[1] = b[1] /\ a[2] < b[2])

\* the test callback up to the API options: a test registered through
\* test.skip is not run by the runner
Lookup(id) ==
    /\ phase = "run"
    /\ current = <<>>
    /\ Run(id).pc = "pending"
    /\ \A other \in TestIds : Before(id, other) => Run(other).pc = "pending"
    /\ Entry(id).via # "skip"
    /\ LET e == Entry(id)
           ref == IF e.via = "only"
                  THEN LookupApiOnly(storage, heap, e.fn, e.metadata)
                  ELSE LookupApi(storage, heap, e.fn, e.metadata)
       IN  /\ runs' = SetRun(id, [Run(id) EXCEPT !.pc = "resolved", !.apiOptions = ref])
           /\ storage' = StoreAll(storage, ResolveStores(storage, heap, e.fn))
    /\ current' = id
    /\ UNCHANGED <<heap, histVars, registeredSuites, now, phase, classVars,
                   describing, describes>>
    /\ UNCHANGED <<apiCall, worker>>

\* processApiRequest is called with the API options and runs up to the
\* transport call
Dispatch(id) ==
    /\ current = id
    /\ Run(id).pc = "resolved"
    /\ IsApiTest(heap, Run(id).apiOptions)
    /\ LET ref == Run(id).apiOptions
           api == ApiOf(heap[ref])
       IN  /\ runs' = SetRun(id, [Run(id) EXCEPT !.pc = "requested", !.called = TRUE,
                                                 !.request = RequestArgs(api)])
           /\ heap' = IF "headers" \in DOMAIN api
                      THEN WithApi(heap, ref, Put(api, "headers", HeadersAfterRequest(api)))
                      ELSE heap
    /\ UNCHANGED <<storage, histVars, registeredSuites, now, phase, classVars,
                   describing, describes, current>>
    /\ UNCHANGED <<apiCall, worker>>

\* the transport answers and the expectations pass, or processApiRequest throws
Respond(id, ok) ==
    /\ current = id
    /\ Run(id).pc = "requested"
    /\ IF ok
       THEN /\ runs' = SetRun(id, [Run(id) EXCEPT !.pc = "body", !.args = "response"])
            /\ UNCHANGED current
       ELSE /\ runs' = SetRun(id, [Run(id) EXCEPT !.pc = "failed"])
            /\ current' = <<>>
    /\ UNCHANGED <<regVars, histVars, registeredSuites, now, phase, classVars,
                   describing, describes>>
    /\ UNCHANGED <<apiCall, worker>>

\* `instance[methodName]({ page, request })`: no response among the arguments
PlainBody(id) ==
    /\ current = id
    /\ Run(id).pc = "resolved"
    /\ ~IsApiTest(heap, Run(id).apiOptions)
    /\ runs' = SetRun(id, [Run(id) EXCEPT !.pc = "body", !.args = "plain"])
    /\ UNCHANGED <<regVars, histVars, registeredSuites, now, phase, classVars,
                   describing, describes, current>>
    /\ UNCHANGED <<apiCall, worker>>

\* the test body returns or throws
Finish(id, ok) ==
    /\ current = id
    /\ Run(id).pc = "body"
    /\ runs' = SetRun(id, [Run(id) EXCEPT !.pc = IF ok THEN "passed" ELSE "failed"])
    /\ current' = <<>>
    /\ UNCHANGED <<regVars, histVars, registeredSuites, now, phase, classVars,
                   describing, describes>>
    /\ UNCHANGED <<apiCall, worker>>

Next ==
    \/ \E c \in Classes : BeginClass(c)
    \/ EndClass
    \/ Tick
    \/ \E fn \in Fns, o \in TestOptionChoices : ApplyTest(fn, o)
    \/ \E fn \in Fns, h \in HookNames : ApplyHook(fn, h)
    \/ \E fn \in Fns : ApplySkip(fn)
    \/ \E fn \in Fns : ApplyOnly(fn)
    \/ \E fn \in Fns, t \in TagChoices : ApplyTag(fn, t)
    \/ \E fn \in Fns : ApplySlow(fn)
    \/ \E fn \in Fns, me \in MethodChoices, pa \in PathChoices : ApplyApiEndpoint(fn, me, pa)
    \/ \E fn \in Fns, p \in PathParamChoices : ApplyPathParams(fn, p)
    \/ \E fn \in Fns, p \in QueryParamChoices : ApplyQueryParams(fn, p)
    \/ \E fn \in Fns, h \in HeaderChoices : ApplyHeaders(fn, h)
    \/ \E fn \in Fns, b \in BodyChoices : ApplyRequestBody(fn, b)
    \/ \E fn \in Fns, st \in StatusChoices : ApplyExpectStatus(fn, st)
    \/ \E fn \in Fns, p \in BodyPathChoices : ApplyExpectBody(fn, p)
    \/ \E fn \in Fns, sc \in SchemaChoices : ApplyExpectSchema(fn, sc)
    \/ \E c \in Classes : ApplySkipClass(c)
    \/ \E c \in Classes : ApplyOnlyClass(c)
    \/ \E c \in Classes, t \in TagChoices : ApplyTagClass(c, t)
    \/ \E c \in Classes : ApplySlowClass(c)
    \/ \E c \in Classes : ApplySuite(c)
    \/ Describe
    \/ StartRun
    \/ \E id \in TestIds : Lookup(id)
    \/ \E id \in TestIds : Dispatch(id)
    \/ \E id \in TestIds, ok \in BOOLEAN : Respond(id, ok)
    \/ \E id \in TestIds : PlainBody(id)
    \/ \E id \in TestIds, ok \in BOOLEAN : Finish(id, ok)

Spec == Init /\ [][Next]_vars

\* the module under test follows the README's API example: on each method the
\* expectations, then the request parts, then ApiEndpoint, then test()
NextDocumented ==
    \/ \E c \in Classes : BeginClass(c)
    \/ EndClass
    \/ \E fn \in Fns, o \in TestOptionChoices : ApplyTest(fn, o)
    \/ \E fn \in Fns, me \in MethodChoices, pa \in PathChoices : ApplyApiEndpoint(fn, me, pa)
    \/ \E fn \in Fns, p \in PathParamChoices : ApplyPathParams(fn, p)
    \/ \E fn \in Fns, p \in QueryParamChoices : ApplyQueryParams(fn, p)
    \/ \E fn \in Fns, h \in HeaderChoices : ApplyHeaders(fn, h)
    \/ \E fn \in Fns, b \in BodyChoices : ApplyRequestBody(fn, b)
    \/ \E fn \in Fns, st \in StatusChoices : ApplyExpectStatus(fn, st)
    \/ \E fn \in Fns, p \in BodyPathChoices : ApplyExpectBody(fn, p)
    \/ \E fn \in Fns, sc \in SchemaChoices : ApplyExpectSchema(fn, sc)
    \/ \E c \in Classes : ApplySuite(c)
    \/ Describe
    \/ StartRun
    \/ \E id \in TestIds : Lookup(id)
    \/ \E id \in TestIds : Dispatch(id)
    \/ \E id \in TestIds, ok \in BOOLEAN : Respond(id, ok)
    \/ \E id \in TestIds : PlainBody(id)
    \/ \E id \in TestIds, ok \in BOOLEAN : Finish(id, ok)

SpecDocumented == InitDocumented /\ [][NextDocumented]_vars

(***************************************************************************)
(* processApiRequest, followed on its own: the options are any of the      *)
(* shapes ApiRequestOptions allows.  A map is the sequence of its entries  *)
(* in Object.entries order; a URL is the sequence of its chunks, a         *)
(* placeholder `{key}` being one chunk.                                    *)
(***************************************************************************)
\* an optional property: <<>> when absent, <<v>> when present
Opt(obj, k, o) == IF o = <<>> THEN obj ELSE Put(obj, k, o[1])

\* a parameter value: string | number | boolean | string[]
Value(t, n, s, b, a) == [t |-> t, n |-> n, s |-> s, b |-> b, a |-> a]
NumV(n) == Value("number", n, "", FALSE, <<>>)
StrV(s) == Value("string", 0, s, FALSE, <<>>)
BoolV(b) == Value("boolean", 0, "", b, <<>>)
ArrV(a) == Value("array", 0, "", FALSE, a)

\* String(value) of a non-array value
Digits == <<"0", "1", "2", "3", "4", "5", "6", "7", "8", "9">>
StringOf(v) ==
    IF v.t = "number" THEN Digits[v.n + 1]
    ELSE IF v.t = "boolean" THEN (IF v.b THEN "true" ELSE "false")
    ELSE v.s

\* `{${key}}`
PlaceholderOf == [id |-> "{id}", name |-> "{name}", page |-> "{page}"]

\* url.includes(chunk)
Includes(url, chunk) == \E i \in 1..Len(url) : url[i] = chunk

\* a replace without the global flag: the first occurrence only
ReplaceFirst(url, placeholder, text) ==
    [i \in 1..Len(url) |->
        IF url[i] = placeholder /\ \A j \in 1..(i - 1) : url[j] # placeholder
        THEN text ELSE url[i]]

\* a replace whose pattern matches any placeholder
ReplaceAny(url, placeholder, text) ==
    [i \in 1..Len(url) |->
        IF \E k \in DOMAIN PlaceholderOf : url[i] = PlaceholderOf[k] THEN text ELSE url[i]]

\* url.replace(new RegExp(`\\{${key}\\}`, 'g'), String(value))
ReplaceAll(url, placeholder, text) ==
    [i \in 1..Len(url) |-> IF url[i] = placeholder THEN text ELSE url[i]]

RECURSIVE SubstitutePath(_, _)
\* Object.entries(options.pathParams).forEach(...): one key after the other
SubstitutePath(url, entries) ==
    IF entries = <<>> THEN url
    ELSE LET e == Head(entries)
             placeholder == PlaceholderOf[e.k]
         IN  SubstitutePath(IF Includes(url, placeholder)
                            THEN ReplaceAll(url, placeholder, StringOf(e.v))
                            ELSE url,
                            Tail(entries))

\* an array value appended as one pair, of its first element
AppendFirst(params, key, a) ==
    IF a = <<>> THEN params ELSE Append(params, <<key, Head(a)>>)

RECURSIVE AppendEach(_, _, _)
\* value.forEach(v => searchParams.append(key, String(v)))
AppendEach(params, key, a) ==
    IF a = <<>> THEN params
    ELSE AppendEach(Append(params, <<key, Head(a)>>), key, Tail(a))

RECURSIVE SearchParams(_, _)
\* Object.entries(options.queryParams).forEach(...)
SearchParams(params, entries) ==
    IF entries = <<>> THEN params
    ELSE LET e == Head(entries)
         IN  SearchParams(IF e.v.t = "array"
                          THEN AppendEach(params, e.k, e.v.a)
                          ELSE Append(params, <<e.k, StringOf(e.v)>>),
                          Tail(entries))

\* URLSearchParams.toString(): the pairs, form-urlencoded
FormEncode(s) == IF s = "a b" THEN "a+b" ELSE s
QueryString(params) ==
    [i \in 1..Len(params) |-> <<FormEncode(params[i][1]), FormEncode(params[i][2])>>]

\* a URL that gets its `?` whatever the query string
WithQueryAlways(url, queryString) ==
    [path |-> url, sep |-> IF Includes(url, "?") THEN "&" ELSE "?", query |-> queryString]

\* `${url}${url.includes('?') ? '&' : '?'}${queryString}` when queryString
\* is not empty
WithQuery(url, queryString) ==
    IF queryString = <<>>
    THEN [path |-> url, sep |-> "", query |-> <<>>]
    ELSE [path |-> url, sep |-> IF Includes(url, "?") THEN "&" ELSE "?",
          query |-> queryString]

\* the URL of the request, lines 57-98
FinishedUrl(options) ==
    LET url == IF "pathParams" \in DOMAIN options
               THEN SubstitutePath(options.path, options.pathParams)
               ELSE options.path
    IN  IF "queryParams" \in DOMAIN options
        THEN WithQuery(url, QueryString(SearchParams(<<>>, options.queryParams)))
        ELSE WithQuery(url, <<>>)

\* JSON values: t is the type, f the properties of an object or the
\* elements of an array by index, v the text of a string or a number
Json(t, f, v) == [t |-> t, f |-> f, v |-> v]
JStr(text) == Json("string", EmptyObj, text)
JNum(text) == Json("number", EmptyObj, text)
JObj(f) == Json("object", f, "")
JArr(f) == Json("array", f, "")
JUndefined == Json("undefined", EmptyObj, "")
JNull == Json("null", EmptyObj, "")

\* the JSON documents of the model and their texts
John == JObj([name |-> JStr("John")])
User1 == JObj([id |-> JNum("1"), name |-> JStr("John"), tags |-> JArr([i \in {"0"} |-> JStr("a")])])
JsonTexts == {<<John, "{\"name\":\"John\"}">>,
              <<User1, "{\"id\":1,\"name\":\"John\",\"tags\":[\"a\"]}">>,
              <<JNum("7"), "7">>}
\* JSON.stringify(value)
Stringify(node) == JStr((CHOOSE p \in JsonTexts : p[1] = node)[2])
\* JSON.parse(text): <<value>>, or <<>> when it throws
Parse(text) ==
    IF \E p \in JsonTexts : p[2] = text
    THEN <<(CHOOSE p \in JsonTexts : p[2] = text)[1]>>
    ELSE <<>>

\* `if (options.body)`: a body is given and is not the empty string
BodyGiven(options) ==
    "body" \in DOMAIN options /\ ~(options.body.t = "string" /\ options.body.v = "")

\* headers['content-type'] or headers['Content-Type'] is set (and not '')
HasContentType(headers) ==
    Truthy(headers, "content-type") \/ Truthy(headers, "Content-Type")

\* headers that get Content-Type: application/json with every body
RequestHeadersJsonAlways(options) ==
    IF BodyGiven(options)
    THEN Put(Field(options, "headers"), "Content-Type", "application/json")
    ELSE Field(options, "headers")

\* requestOptions.headers after lines 76-113: options.headers || {}, with
\* Content-Type set for a structured body when no content type is there
RequestHeaders(options) ==
    IF /\ BodyGiven(options)
       /\ options.body.t # "string"
       /\ ~HasContentType(Field(options, "headers"))
    THEN Put(Field(options, "headers"), "Content-Type", "application/json")
    ELSE Field(options, "headers")

\* requestOptions.data, lines 100-113: <<>> when not set
RequestData(options) ==
    IF ~BodyGiven(options) THEN <<>>
    ELSE IF options.body.t = "string" THEN <<options.body>>
    ELSE <<Stringify(options.body)>>

\* header?.includes('application/json')
IncludesJson(headers, k) ==
    k \in DOMAIN headers /\ headers[k] \in {"application/json", "application/json; charset=utf-8"}

\* data handed over as requestOptions.data whatever the content type
PlaywrightDataAsIs(headers, data) == data

\* playwrightOptions.data, lines 127-148: with a JSON content type the
\* string is parsed, and used as it is when parsing throws
PlaywrightData(headers, data) ==
    IF data = <<>> THEN <<>>
    ELSE IF (IncludesJson(headers, "Content-Type") \/ IncludesJson(headers, "content-type"))
            /\ Parse(data[1].v) # <<>>
         THEN Parse(data[1].v)
         ELSE data

\* options.method.toLowerCase()
ToLowerCase ==
    [GET |-> "get", POST |-> "post", PUT |-> "put", DELETE |-> "delete",
     PATCH |-> "patch", HEAD |-> "head", get |-> "get", TRACE |-> "trace",
     OPTIONS |-> "options"]
\* the cases of the switch
TransportMethods == {"get", "post", "put", "delete", "patch", "head"}

\* a switch whose default case is a GET
TransportMethodOrGet(method) ==
    IF ToLowerCase[method] \in TransportMethods THEN <<ToLowerCase[method]>> ELSE <<"get">>

\* the transport method the switch calls: <<>> for its default case
TransportMethod(method) ==
    IF ToLowerCase[method] \in TransportMethods THEN <<ToLowerCase[method]>> ELSE <<>>

\* a status check that always passes
StatusPassesAlways(options, status) == TRUE

\* `if (options.expect.status) expect(response.status()).toBe(...)`
StatusPasses(options, status) ==
    \/ "expect" \notin DOMAIN options
    \/ "status" \notin DOMAIN options.expect
    \/ options.expect.status = 0
    \/ status = options.expect.status

RECURSIVE getValueByPath(_, _)
\* a traversal that stops at a null with the null in its hands
getValueByPathKeepingNull(obj, parts) ==
    IF parts = <<>> THEN obj
    ELSE IF obj.t \in {"null", "undefined"} THEN obj
    ELSE getValueByPath(IF Head(parts) \in DOMAIN obj.f THEN obj.f[Head(parts)] ELSE JUndefined,
                        Tail(parts))

\* getValueByPath(obj, path), path split at the dots
getValueByPath(obj, parts) ==
    IF parts = <<>> THEN obj
    ELSE IF obj.t \in {"null", "undefined"} THEN JUndefined
    ELSE getValueByPath(IF Head(parts) \in DOMAIN obj.f THEN obj.f[Head(parts)] ELSE JUndefined,
                        Tail(parts))

\* String.prototype.includes on the strings of the model
ProperSubstrings == {<<"Jo", "John">>, <<"hn", "John">>}
IsSubstring(part, whole) ==
    part = "" \/ part = whole \/ <<part, whole>> \in ProperSubstrings
\* `===` on two values, one of which was parsed from the response: two
\* objects or arrays are never the same object
Same(x, y) == x = y /\ x.t \notin {"object", "array"}

\* an unknown assertion kind that passes without a word
AssertionLenient(value, a) ==
    IF a.assertion = "toBeDefined"
    THEN (IF value.t # "undefined" THEN "pass" ELSE "assertion")
    ELSE IF a.assertion = "toEqual"
    THEN (IF value = a.value THEN "pass" ELSE "assertion")
    ELSE IF a.assertion = "toContain"
    THEN (IF \/ value.t = "array" /\ \E i \in DOMAIN value.f : Same(value.f[i], a.value)
             \/ value.t = "string" /\ a.value.t = "string" /\ IsSubstring(a.value.v, value.v)
          THEN "pass" ELSE "assertion")
    ELSE "pass"

\* toContain that looks for an equal string only
AssertionContainsWhole(value, a) ==
    IF a.assertion = "toBeDefined"
    THEN (IF value.t # "undefined" THEN "pass" ELSE "assertion")
    ELSE IF a.assertion = "toEqual"
    THEN (IF value = a.value THEN "pass" ELSE "assertion")
    ELSE IF a.assertion = "toContain"
    THEN (IF \/ value.t = "array" /\ \E i \in DOMAIN value.f : Same(value.f[i], a.value)
             \/ value.t = "string" /\ a.value.t = "string" /\ a.value.v = value.v
          THEN "pass" ELSE "assertion")
    ELSE "unsupportedAssertion"

\* one body expectation, lines 195-207: "pass", "assertion" when the
\* matcher throws, "unsupportedAssertion" for a kind the switch does not
\* know.  toEqual is structural equality; toContain takes an array and one
\* of its elements, or two strings
Assertion(value, a) ==
    IF a.assertion = "toBeDefined"
    THEN (IF value.t # "undefined" THEN "pass" ELSE "assertion")
    ELSE IF a.assertion = "toEqual"
    THEN (IF value = a.value THEN "pass" ELSE "assertion")
    ELSE IF a.assertion = "toContain"
    THEN (IF \/ value.t = "array" /\ \E i \in DOMAIN value.f : Same(value.f[i], a.value)
             \/ value.t = "string" /\ a.value.t = "string" /\ IsSubstring(a.value.v, value.v)
          THEN "pass" ELSE "assertion")
    ELSE "unsupportedAssertion"

RECURSIVE BodyExpectations(_, _)
\* Object.entries(options.expect.body).forEach(...): the first that throws
BodyExpectations(entries, responseBody) ==
    IF entries = <<>> THEN "pass"
    ELSE LET r == Assertion(getValueByPath(responseBody, Head(entries).k), Head(entries).v)
         IN  IF r # "pass" THEN r ELSE BodyExpectations(Tail(entries), responseBody)

RECURSIVE Validated(_, _)
\* the values the loop logs (`Validating path ... with value`): one per
\* expectation it gets to
Validated(entries, responseBody) ==
    IF entries = <<>> THEN <<>>
    ELSE LET value == getValueByPath(responseBody, Head(entries).k)
         IN  <<value>> \o (IF Assertion(value, Head(entries).v) # "pass" THEN <<>>
                           ELSE Validated(Tail(entries), responseBody))

\* a schema check that wants the body to be an object
SchemaPassesForObjects(options, response) ==
    \/ "expect" \notin DOMAIN options
    \/ "schema" \notin DOMAIN options.expect
    \/ (response.body # <<>> /\ response.body[1].t = "object")

\* `if (options.expect.schema)`, lines 211-221: a log line and no check
SchemaPasses(options, response) == TRUE

\* the error a failed call throws: the catch block (225-228) logs the URL
\* and rethrows what it caught, so the error has the URL and a cause only
\* if it came with them
Thrown(kind) == [kind |-> kind, url |-> <<>>, cause |-> <<>>]

\* the options processApiRequest is called with
MethodInputs == DOMAIN ToLowerCase
PathInputs == {<<"/a/", "{id}", "/b/", "{id}">>,
               <<"/users/", "{id}", "/posts/", "{page}">>,
               <<"/search", "?", "q=1">>}
PathParamInputs ==
    {<<>>,
     << <<[k |-> "id", v |-> NumV(7)]>> >>,
     << <<[k |-> "name", v |-> StrV("x")], [k |-> "id", v |-> NumV(7)]>> >>}
QueryParamInputs ==
    {<<>>,
     << <<>> >>,
     << <<[k |-> "tag", v |-> ArrV(<<>>)]>> >>,
     << <<[k |-> "tag", v |-> ArrV(<<"x", "y">>)]>> >>,
     << <<[k |-> "q", v |-> StrV("a b")]>> >>,
     << <<[k |-> "limit", v |-> NumV(3)], [k |-> "tag", v |-> ArrV(<<"x", "y">>)],
          [k |-> "flag", v |-> BoolV(TRUE)]>> >>}
HeaderInputs ==
    {<<>>,
     <<[Accept |-> "application/json"]>>,
     <<("Content-Type" :> "application/json; charset=utf-8")>>,
     <<("content-type" :> "text/plain") @@ [Accept |-> "application/json"]>>}
BodyInputs ==
    {<<>>, <<JStr("")>>, <<JStr("plain")>>, <<Stringify(John)>>, <<John>>}
ExpectInputs ==
    {<<>>,
     <<[status |-> 200]>>,
     <<[status |-> 404]>>,
     <<[status |-> 200,
        body |-> <<[k |-> <<"id">>, v |-> [assertion |-> "toBeDefined", value |-> JUndefined]]>>]>>}
\* what the transport answers
ResponseStatuses == {200, 404}
ResponseBodies == {<<>>, <<User1>>, <<John>>}

\* an outcome of the call: what it is and, for a failed status check, the
\* status expected and the status received
Result(kind, expected, actual) == [kind |-> kind, expected |-> expected, actual |-> actual]

\* processApiRequest(request, options) is entered
NewCall(options) ==
    [pc |-> "entry", options |-> options, passed |-> options, calls |-> <<>>,
     response |-> <<>>, validated |-> <<>>, thrown |-> <<>>,
     result |-> Result("none", 0, 0)]

InitRequest ==
    /\ InitIn("request")
    /\ worker = NoWorker
    /\ \E me \in MethodInputs, pa \in PathInputs, pp \in PathParamInputs,
          qp \in QueryParamInputs, h \in HeaderInputs, b \in BodyInputs, e \in ExpectInputs :
          apiCall = NewCall(Opt(Opt(Opt(Opt(Opt([method |-> me, path |-> pa],
                                "pathParams", pp), "queryParams", qp), "headers", h),
                                "body", b), "expect", e))

mainVars == <<storage, heap, registeredSuites, now, phase, defining, classStage,
              defined, describing, describes, runs, current, decorations, last,
              mode, applied, docRank, declared, lastStored, firstStored, worker>>

\* a call that is made a second time
SendTwice ==
    /\ apiCall.pc = "entry"
    /\ LET options == apiCall.options
           headers == RequestHeaders(options)
           data == PlaywrightData(headers, RequestData(options))
           method == TransportMethod(options.method)
           call == [method |-> method[1], url |-> FinishedUrl(options),
                    headers |-> headers, data |-> data]
           after == IF "headers" \in DOMAIN options
                    THEN Put(options, "headers", headers) ELSE options
       IN  IF method = <<>>
           THEN apiCall' = [apiCall EXCEPT !.pc = "failed", !.options = after,
                                           !.thrown = <<Thrown("unsupported")>>,
                                           !.result = Result("unsupported", 0, 0)]
           ELSE apiCall' = [apiCall EXCEPT
                               !.pc = "awaiting", !.options = after,
                               !.calls = <<call, call>>]
    /\ UNCHANGED mainVars

\* lines 55-174 up to the await: the URL, the headers and the data are
\* built, and the switch calls the transport method or throws
Send ==
    /\ apiCall.pc = "entry"
    /\ LET options == apiCall.options
           headers == RequestHeaders(options)
           data == PlaywrightData(headers, RequestData(options))
           method == TransportMethod(options.method)
           after == IF "headers" \in DOMAIN options
                    THEN Put(options, "headers", headers) ELSE options
       IN  IF method = <<>>
           THEN apiCall' = [apiCall EXCEPT !.pc = "failed", !.options = after,
                                           !.thrown = <<Thrown("unsupported")>>,
                                           !.result = Result("unsupported", 0, 0)]
           ELSE apiCall' = [apiCall EXCEPT
                               !.pc = "awaiting", !.options = after,
                               !.calls = Append(@, [method |-> method[1],
                                                    url |-> FinishedUrl(options),
                                                    headers |-> headers,
                                                    data |-> data])]
    /\ UNCHANGED mainVars

\* the call after the transport call resolved: lines 176-224 up to
\* `await response.json()`, or to the end when no body expectation is there
Responded(call, status, body) ==
    LET options == call.options
        response == [status |-> status, body |-> body]
    IN  IF ~StatusPasses(options, status)
        THEN [call EXCEPT !.pc = "failed", !.response = <<response>>,
                          !.thrown = <<Thrown("assertion")>>,
                          !.result = Result("assertion", options.expect.status, status)]
        ELSE IF "expect" \in DOMAIN options /\ "body" \in DOMAIN options.expect
        THEN [call EXCEPT !.pc = "parsing", !.response = <<response>>]
        ELSE IF ~SchemaPasses(options, response)
        THEN [call EXCEPT !.pc = "failed", !.response = <<response>>,
                          !.thrown = <<Thrown("assertion")>>,
                          !.result = Result("assertion", 0, 0)]
        ELSE [call EXCEPT !.pc = "returned", !.response = <<response>>,
                          !.result = Result("response", 0, 0)]

\* the call after response.json() resolved or rejected: lines 188-224
Parsed(call) ==
    LET options == call.options
        response == call.response[1]
        entries == options.expect.body
        r == IF response.body = <<>> THEN "parse"
             ELSE BodyExpectations(entries, response.body[1])
        outcome == IF r = "pass" /\ ~SchemaPasses(options, response)
                   THEN "assertion" ELSE r
    IN  [call EXCEPT
            !.pc = IF outcome = "pass" THEN "returned" ELSE "failed",
            !.validated = IF response.body = <<>> THEN <<>>
                          ELSE Validated(entries, response.body[1]),
            !.thrown = IF outcome = "pass" THEN <<>> ELSE <<Thrown(outcome)>>,
            !.result = Result(IF outcome = "pass" THEN "response" ELSE outcome, 0, 0)]

TransportResponds(status, body) ==
    /\ apiCall.pc = "awaiting"
    /\ apiCall' = Responded(apiCall, status, body)
    /\ UNCHANGED mainVars

\* the transport call rejects: the catch block rethrows the error
TransportFails ==
    /\ apiCall.pc = "awaiting"
    /\ apiCall' = [apiCall EXCEPT !.pc = "failed", !.thrown = <<Thrown("transport")>>,
                                  !.result = Result("transport", 0, 0)]
    /\ UNCHANGED mainVars

BodyParsed ==
    /\ apiCall.pc = "parsing"
    /\ apiCall' = Parsed(apiCall)
    /\ UNCHANGED mainVars

NextRequest ==
    \/ Send
    \/ \E st \in ResponseStatuses, b \in ResponseBodies : TransportResponds(st, b)
    \/ TransportFails
    \/ BodyParsed

SpecRequest == InitRequest /\ [][NextRequest]_vars

(***************************************************************************)
(* processApiRequest on one request, with the expectations and the         *)
(* responses varied.                                                       *)
(***************************************************************************)
\* response bodies: JSON documents, or <<>> for a body that is not JSON
Profiled == JObj([id |-> JNum("1"), profile |-> JObj([city |-> JStr("Oslo")])])
Unprofiled == JObj([id |-> JNum("1"), profile |-> JNull])
ExpectedResponseBodies == {<<>>, <<User1>>, <<Profiled>>, <<Unprofiled>>, <<JNull>>}

\* ExpectBody(path).toBeDefined() / .toEqual(value) / .toContain(value),
\* and a kind no decorator files
Expectation(kind, value) == [assertion |-> kind, value |-> value]
ExpectationInputs ==
    {Expectation("toBeDefined", JUndefined), Expectation("toMatch", JStr("Jo"))}
    \cup {Expectation(kind, value) :
             kind \in {"toEqual", "toContain"},
             value \in {JNum("1"), JStr("John"), JStr("Jo"), JStr("a"),
                        JArr([i \in {"0"} |-> JStr("a")])}}
BodyPathInputs == {<<"id">>, <<"name">>, <<"tags">>, <<"tags", "0">>,
                   <<"profile", "city">>, <<"address", "city", "code">>}
\* expect.body: one expectation, or two on different paths
ExpectBodyInputs ==
    {<<[k |-> path, v |-> e]>> : path \in BodyPathInputs, e \in ExpectationInputs}
    \cup {<<[k |-> first, v |-> ef], [k |-> path, v |-> e]>> :
             first \in {<<"id">>, <<"profile", "city">>},
             ef \in {Expectation("toBeDefined", JUndefined), Expectation("toMatch", JStr("Jo"))},
             path \in BodyPathInputs \ {<<"id">>, <<"profile", "city">>},
             e \in ExpectationInputs}

InitExpect ==
    /\ InitIn("expect")
    /\ worker = NoWorker
    /\ \E status \in {<<>>, <<200>>}, body \in {<<>>} \cup {<<b>> : b \in ExpectBodyInputs},
          schema \in {<<>>, <<[type |-> "object"]>>}, expect \in BOOLEAN :
          /\ expect \/ (status = <<>> /\ body = <<>> /\ schema = <<>>)
          /\ apiCall = NewCall(Opt([method |-> "GET", path |-> <<"/users/", "{id}">>,
                                    pathParams |-> <<[k |-> "id", v |-> NumV(1)]>>],
                                   "expect",
                                   IF expect
                                   THEN <<Opt(Opt(Opt(EmptyObj, "status", status),
                                                  "body", body), "schema", schema)>>
                                   ELSE <<>>))

NextExpect ==
    \/ Send
    \/ \E st \in ResponseStatuses, b \in ExpectedResponseBodies : TransportResponds(st, b)
    \/ TransportFails
    \/ BodyParsed

SpecExpect == InitExpect /\ [][NextExpect]_vars

(***************************************************************************)
(* The run of one describe block, followed on its own: class S, its four   *)
(* methods declared as hooks and tests, decorated with suite().  The       *)
(* callbacks that suite() registers are called by the runner of            *)
(* @playwright/test, in one worker process: the beforeAll callback before  *)
(* the first test it runs; for each test it runs, in registration order,   *)
(* the beforeEach callback, the test callback unless beforeEach threw, and *)
(* the afterEach callback; the afterAll callback after the last.  It runs  *)
(* the tests registered with test.only if there are any and the tests      *)
(* registered with test otherwise, never one registered with test.skip,    *)
(* and no callback at all when it runs no test.  A per-test-before hook,   *)
(* processApiRequest and a test body may throw; so may a once-before hook, *)
(* and then the runner calls neither the beforeEach nor the test callback  *)
(* of any test of the block, and calls the afterAll callback.  What a      *)
(* callback throws reaches the runner.  The run is that of one             *)
(* process going through the block to its end: a runner that ends the      *)
(* process after a failure and goes on in a new one starts the module      *)
(* anew there.                                                             *)
(***************************************************************************)
\* how a method of the class is declared
MemberKinds == HookNames \cup {"test", "only", "skip", "slow", "api", "onlyApi"}

\* the registry after a decorator application
Apply(reg, res) == [m |-> StoreAll(reg.m, res.stores), hp |-> res.hp]

\* the decorators of one method, innermost first:
\* @beforeAll() ... @afterAll(); @test(); @only() @test(); @skip();
\* @tag(['smoke']) @slow() @test(); @ApiEndpoint('GET', '/users/{id}');
\* @only() @test() @ApiEndpoint('GET', '/users/{id}')
Declare(reg, fn, kind) ==
    LET tested == Apply(reg, test(reg.m, reg.hp, fn, EmptyObj))
        slowed == Apply(tested, slow(tested.m, tested.hp, fn, "test"))
        endpoint == Apply(reg, ApiEndpoint(reg.m, reg.hp, fn, "GET", "/users/{id}"))
        retested == Apply(endpoint, test(endpoint.m, endpoint.hp, fn, EmptyObj))
    IN  IF kind \in HookNames THEN Apply(reg, hook(reg.m, reg.hp, fn, kind))
        ELSE IF kind = "test" THEN tested
        ELSE IF kind = "only" THEN Apply(tested, only(tested.m, tested.hp, fn, "test"))
        ELSE IF kind = "skip" THEN Apply(reg, skip(reg.m, reg.hp, fn))
        ELSE IF kind = "slow"
        THEN Apply(slowed, tag(slowed.m, slowed.hp, fn, "test", <<"smoke">>))
        ELSE IF kind = "api" THEN endpoint
        ELSE Apply(retested, only(retested.m, retested.hp, fn, "test"))

RECURSIVE DeclareAll(_, _, _)
\* the methods of the class body, in declaration order
DeclareAll(reg, fns, kinds) ==
    IF fns = <<>> THEN reg
    ELSE DeclareAll(Declare(reg, Head(fns), Head(kinds)), Tail(fns), Tail(kinds))

\* class S { ... } decorated with @suite()
SuiteClass(kinds) ==
    LET reg == DeclareAll([m |-> <<>>, hp |-> <<>>], SuiteMethods, kinds)
    IN  Apply(reg, suite(reg.m, reg.hp, "S"))

\* the describe callback has run: `let instance` is undefined and no
\* callback has been called (kinds: how the methods were declared)
NewWorker(block, kinds) ==
    [pc |-> "collected", block |-> block, kinds |-> kinds,
     instance |-> 0, constructed |-> 0,
     test |-> 0, idx |-> 0, ran |-> {}, failed |-> {}, abandoned |-> {},
     reported |-> {}, annotations |-> {}, log |-> <<>>]

InitSuite ==
    \E kinds \in [1..Len(SuiteMethods) -> MemberKinds] :
        LET reg == SuiteClass(kinds)
        IN  /\ InitWith("suite", reg.m, reg.hp, {<<"S", 0>>})
            /\ apiCall = NoRequest
            /\ worker = NewWorker(Block("S", reg.m, reg.hp), kinds)

suiteTrackVars == <<storage, heap, registeredSuites, now, phase, defining, classStage,
                    defined, describing, describes, runs, current, decorations, last,
                    mode, applied, docRank, declared, lastStored, firstStored, apiCall>>

\* the tests the runner runs: those of test.only if any, else those of test
Runnable(block) ==
    LET onlys == {i \in DOMAIN block.tests : block.tests[i].via = "only"}
    IN  IF onlys # {} THEN onlys
        ELSE {i \in DOMAIN block.tests : block.tests[i].via = "test"}

\* hooks that are run for tests without modifier only
HooksForPlainTests(w, hookName) ==
    IF w.test # 0 /\ (\/ w.block.tests[w.test].isOnly
                      \/ w.block.tests[w.test].isSlow
                      \/ w.block.tests[w.test].tags # <<>>)
    THEN <<>>
    ELSE w.block[hookName]

\* the hook methods a callback of the describe block loops over, whatever
\* the test: the callback is registered once, for every test of the block
HooksFor(w, hookName) == w.block[hookName]

\* a runner that leaves the afterAll callback out once a test has failed
PickUnlessFailed(w) ==
    LET rest == {i \in Runnable(w.block) : i > w.test}
    IN  IF rest = {}
        THEN (IF w.failed # {} THEN [w EXCEPT !.pc = "done", !.test = 0]
              ELSE [w EXCEPT !.pc = "afterAll", !.idx = 1, !.test = 0])
        ELSE [w EXCEPT !.pc = "beforeEach", !.idx = 1,
                       !.test = CHOOSE i \in rest : \A n \in rest : i <= n]

\* the runner moves on: to the beforeEach callback of the next test it
\* runs, or to the afterAll callback
Pick(w) ==
    LET rest == {i \in Runnable(w.block) : i > w.test}
    IN  IF rest = {} THEN [w EXCEPT !.pc = "afterAll", !.idx = 1, !.test = 0]
        ELSE [w EXCEPT !.pc = "beforeEach", !.idx = 1,
                       !.test = CHOOSE i \in rest : \A n \in rest : i <= n]

RECURSIVE Advance(_)
\* the `for (const method of ...)` loop of a callback has come to its end:
\* the callback returns and the runner calls what is next
Advance(w) ==
    IF w.pc \in HookNames /\ w.idx > Len(HooksFor(w, w.pc))
    THEN IF w.pc = "beforeAll" THEN Advance(Pick(w))
         ELSE IF w.pc = "beforeEach" THEN [w EXCEPT !.pc = "test"]
         ELSE IF w.pc = "afterEach"
         THEN Advance(Pick([w EXCEPT !.ran = @ \cup {w.test}]))
         ELSE [w EXCEPT !.pc = "done"]
    ELSE w

\* a call `instance[method](...)`, or the call of processApiRequest, and
\* the error it threw if it did
Call(w, what, fn, error) ==
    [call |-> what, method |-> fn, test |-> w.test, instance |-> w.instance,
     threw |-> error # <<>>, error |-> error]

\* the errors processApiRequest throws, and those of hooks and bodies
EngineErrors == {Thrown("unsupported"), Thrown("assertion"), Thrown("transport")}
HookError == Thrown("hook")
BodyError == Thrown("body")

\* a catch block that throws an error of its own
RethrownWrapped(error) == [kind |-> "suite", url |-> <<>>, cause |-> <<error.kind>>]

\* `catch (error) { console.error(...); throw error; }`, lines 296-299
Rethrown(error) == error

\* a callback has thrown: the runner has the error, for the test at hand
Report(w, error) ==
    [w EXCEPT !.reported = @ \cup {[test |-> w.test, error |-> error]}]

\* `new target()`
Construct(w) == [w EXCEPT !.constructed = @ + 1, !.instance = w.constructed + 1]

\* an instance made anew for the test
FreshInstance(w) == Construct(w)

\* `if (!instance) instance = new target()`
EnsureInstance(w) == IF w.instance = 0 THEN Construct(w) ELSE w

\* the runner has no test to run in this block: it calls no callback
NothingToRun ==
    /\ worker.pc = "collected"
    /\ Runnable(worker.block) = {}
    /\ worker' = [worker EXCEPT !.pc = "done"]
    /\ UNCHANGED suiteTrackVars

\* the beforeAll callback, lines 85-93, up to its first hook
BeforeAllCallback ==
    /\ worker.pc = "collected"
    /\ Runnable(worker.block) # {}
    /\ worker' = Advance([Construct(worker) EXCEPT !.pc = "beforeAll", !.idx = 1])
    /\ UNCHANGED suiteTrackVars

\* `await instance[method](...)` in the loop of a hook callback returns
HookReturns ==
    /\ worker.pc \in HookNames
    /\ LET fn == HooksFor(worker, worker.pc)[worker.idx]
       IN  worker' = Advance([worker EXCEPT
                                 !.log = Append(@, Call(worker, worker.pc, fn, <<>>)),
                                 !.idx = @ + 1])
    /\ UNCHANGED suiteTrackVars

\* a per-test-before hook throws: the beforeEach callback throws, the
\* runner fails the test, leaves out the test callback and calls the
\* afterEach callback
BeforeEachThrows ==
    /\ worker.pc = "beforeEach"
    /\ LET fn == HooksFor(worker, "beforeEach")[worker.idx]
       IN  worker' = Advance([Report(worker, HookError) EXCEPT
                                 !.log = Append(@, Call(worker, "beforeEach", fn, <<HookError>>)),
                                 !.failed = @ \cup {worker.test},
                                 !.pc = "afterEach", !.idx = 1])
    /\ UNCHANGED suiteTrackVars

\* a once-before hook throws: the beforeAll callback throws, the runner
\* fails the tests of the block without calling their callbacks and calls
\* the afterAll callback
BeforeAllThrows ==
    /\ worker.pc = "beforeAll"
    /\ LET fn == HooksFor(worker, "beforeAll")[worker.idx]
       IN  worker' = Advance([Report(worker, HookError) EXCEPT
                                 !.log = Append(@, Call(worker, "beforeAll", fn, <<HookError>>)),
                                 !.failed = Runnable(worker.block),
                                 !.abandoned = Runnable(worker.block),
                                 !.pc = "afterAll", !.idx = 1])
    /\ UNCHANGED suiteTrackVars

\* the test callback up to its first await: the annotations, the instance,
\* the API options
TestCallback ==
    /\ worker.pc = "test"
    /\ LET e == worker.block.tests[worker.test]
           ref == IF e.via = "only"
                  THEN LookupApiOnly(storage, heap, e.fn, e.metadata)
                  ELSE LookupApi(storage, heap, e.fn, e.metadata)
           noted == (IF e.tags # <<>> THEN {<<worker.test, "tag">>} ELSE {})
                    \cup (IF e.isSlow THEN {<<worker.test, "slow">>} ELSE {})
           w == EnsureInstance(worker)
       IN  worker' = [w EXCEPT !.annotations = @ \cup noted,
                               !.pc = IF IsApiTest(heap, ref) THEN "engine" ELSE "body"]
    /\ UNCHANGED suiteTrackVars

\* `await processApiRequest(...)` resolves
EngineReturns ==
    /\ worker.pc = "engine"
    /\ LET fn == worker.block.tests[worker.test].fn
       IN  worker' = [worker EXCEPT !.log = Append(@, Call(worker, "engine", fn, <<>>)),
                                    !.pc = "body"]
    /\ UNCHANGED suiteTrackVars

\* `await processApiRequest(...)` throws: the test callback throws what it
\* caught (regular branch) or what came (test.only branch)
EngineThrows(error) ==
    /\ worker.pc = "engine"
    /\ LET e == worker.block.tests[worker.test]
           out == IF e.via = "only" THEN error ELSE Rethrown(error)
       IN  worker' = Advance([Report(worker, out) EXCEPT
                                 !.log = Append(@, Call(worker, "engine", e.fn, <<error>>)),
                                 !.failed = @ \cup {worker.test},
                                 !.pc = "afterEach", !.idx = 1])
    /\ UNCHANGED suiteTrackVars

\* `await instance[methodName]({...})` returns or throws
Body(ok) ==
    /\ worker.pc = "body"
    /\ LET fn == worker.block.tests[worker.test].fn
           w == IF ok THEN worker ELSE Report(worker, BodyError)
       IN  worker' = Advance([w EXCEPT
                                 !.log = Append(@, Call(worker, "body", fn,
                                                        IF ok THEN <<>> ELSE <<BodyError>>)),
                                 !.failed = IF ok THEN @ ELSE @ \cup {worker.test},
                                 !.pc = "afterEach", !.idx = 1])
    /\ UNCHANGED suiteTrackVars

NextSuite ==
    \/ NothingToRun
    \/ BeforeAllCallback
    \/ HookReturns
    \/ BeforeAllThrows
    \/ BeforeEachThrows
    \/ TestCallback
    \/ EngineReturns
    \/ \E error \in EngineErrors : EngineThrows(error)
    \/ \E ok \in BOOLEAN : Body(ok)

SpecSuite == InitSuite /\ [][NextSuite]_vars

(***************************************************************************)
(* processApiRequest with path parameters whose values are themselves      *)
(* placeholders of other keys, in either order of the keys.                *)
(***************************************************************************)
PlaceholderParamInputs ==
    {<<[k |-> "id", v |-> StrV("{page}")], [k |-> "page", v |-> NumV(2)]>>,
     <<[k |-> "page", v |-> NumV(2)], [k |-> "id", v |-> StrV("{page}")]>>,
     <<[k |-> "page", v |-> StrV("{id}")], [k |-> "id", v |-> NumV(7)]>>,
     <<[k |-> "id", v |-> NumV(7)], [k |-> "name", v |-> StrV("x")]>>}

InitSubstitute ==
    /\ InitIn("substitute")
    /\ worker = NoWorker
    /\ \E me \in MethodInputs, pa \in PathInputs, pp \in PlaceholderParamInputs,
          e \in ExpectInputs :
          apiCall = NewCall(Opt([method |-> me, path |-> pa, pathParams |-> pp], "expect", e))

SpecSubstitute == InitSubstitute /\ [][NextRequest]_vars

(***************************************************************************)
(* suite() on its own: classes A and B, each with a test method, are       *)
(* decorated with suite(options), any number of times, while the clock     *)
(* goes on.  test.describe calls its callback at once, so the decorator    *)
(* and the describe callback are one step.                                 *)
(***************************************************************************)
\* applications of suite() in all
MaxSuiteCalls == 3

\* suite() and suite({name: 'Shared'})
SuiteOptionChoices == {EmptyObj, [name |-> "Shared"]}

\* `options.name || getName(target)`
SuiteNameOf(c, options) == IF "name" \in DOMAIN options THEN options.name ELSE c
\* `${suiteName}_${Date.now()}`
SuiteIdOf(c, options, clock) == <<SuiteNameOf(c, options), clock>>
\* the record suite(options) stores under the class
suiteWith(m, hp, c, options) ==
    [hp |-> Append(hp, NewMetadata("suite", SuiteNameOf(c, options), options)),
     stores |-> << <<c, Fresh(hp)>> >>]

\* class A { @test() m(){} } and class B { @test() m(){} }
TwoClasses ==
    LET a == Apply([m |-> <<>>, hp |-> <<>>], test(<<>>, <<>>, "fA", EmptyObj))
    IN  Apply(a, test(a.m, a.hp, "fB", EmptyObj))

InitRegister ==
    /\ InitWith("register", TwoClasses.m, TwoClasses.hp, {})
    /\ apiCall = NoRequest
    /\ worker = [pc |-> "register", calls |-> <<>>, stores |-> <<>>]

registerTrackVars == <<phase, defining, classStage, defined, describing, runs, current,
                       decorations, last, mode, applied, docRank, declared, lastStored,
                       firstStored, apiCall>>

\* registeredSuites.has(suiteId)
IsRegistered(ids, id) == id \in ids

\* suite(options)(c), lines 22-48 and the describe callback
DecorateWithSuite(c, options) ==
    /\ worker.pc = "register"
    /\ Len(worker.calls) < MaxSuiteCalls
    /\ LET id == SuiteIdOf(c, options, now)
           res == suiteWith(storage, heap, c, options)
           m == StoreAll(storage, res.stores)
           call == [cls |-> c, options |-> options, at |-> now]
       IN  IF IsRegistered(registeredSuites, id)
           THEN /\ worker' = [worker EXCEPT !.calls = Append(@, call)]
                /\ UNCHANGED <<registeredSuites, storage, heap, describes>>
           ELSE /\ registeredSuites' = registeredSuites \cup {id}
                /\ storage' = m
                /\ heap' = res.hp
                /\ describes' = Append(describes, Block(c, m, res.hp))
                /\ worker' = [worker EXCEPT !.calls = Append(@, call),
                                            !.stores = Append(@, c)]
    /\ UNCHANGED now
    /\ UNCHANGED registerTrackVars

\* a millisecond passes
ClockTick ==
    /\ worker.pc = "register"
    /\ now < MaxClock
    /\ now' = now + 1
    /\ UNCHANGED <<registeredSuites, storage, heap, describes, worker>>
    /\ UNCHANGED registerTrackVars

NextRegister ==
    \/ \E c \in Classes, o \in SuiteOptionChoices : DecorateWithSuite(c, o)
    \/ ClockTick

SpecRegister == InitRegister /\ [][NextRegister]_vars

(***************************************************************************)
(* One member and the order of its annotations: a set of annotations, each *)
(* writing a slice of its own, is applied to method m of class A in any    *)
(* order; then suite() is applied to A, buckets and registers the member,  *)
(* and the test's retrieval of its API options is made.                    *)
(***************************************************************************)
\* how many annotations the member carries
MaxAnnotations == 3

Annotations == {"test", "skip", "only", "slow", "tag", "ApiEndpoint", "PathParams",
                "QueryParams", "Headers", "RequestBody", "ExpectStatus", "ExpectBody",
                "ExpectSchema"}

\* the decorator application of an annotation of the member
Annotate(m, hp, fn, a) ==
    CASE a = "test" -> test(m, hp, fn, EmptyObj)
      [] a = "skip" -> skip(m, hp, fn)
      [] a = "only" -> only(m, hp, fn, "test")
      [] a = "slow" -> slow(m, hp, fn, "test")
      [] a = "tag" -> tag(m, hp, fn, "test", <<"smoke">>)
      [] a = "ApiEndpoint" -> ApiEndpoint(m, hp, fn, "GET", "/users/{id}")
      [] a = "PathParams" -> PathParams(m, hp, fn, [id |-> "1"])
      [] a = "QueryParams" -> QueryParams(m, hp, fn, [limit |-> "3"])
      [] a = "Headers" -> Headers(m, hp, fn, [Accept |-> "application/json"])
      [] a = "RequestBody" -> RequestBody(m, hp, fn, [name |-> "John"])
      [] a = "ExpectStatus" -> ExpectStatus(m, hp, fn, 200)
      [] a = "ExpectBody" -> ExpectBody(m, hp, fn, "id", [assertion |-> "toBeDefined"])
      [] OTHER -> ExpectSchema(m, hp, fn, [type |-> "object"])

\* what the suite uses for the member: whether it is a test, how it is
\* registered, its modifiers, and the API options its retrieval returns
NotUsed == [isTest |-> FALSE, via |-> "", isSlow |-> FALSE, tags |-> <<>>, api |-> <<>>]
Effective(m, hp, fn) ==
    LET block == Block(ClassOf(fn), m, hp)
    IN  IF block.tests = <<>> THEN NotUsed
        ELSE LET e == block.tests[1]
                 ref == IF e.via = "only" THEN LookupApiOnly(m, hp, e.fn, e.metadata)
                        ELSE LookupApi(m, hp, e.fn, e.metadata)
             IN  [isTest |-> TRUE, via |-> e.via, isSlow |-> e.isSlow, tags |-> e.tags,
                  api |-> IF ref = NoRef THEN <<>> ELSE <<ApiOf(hp[ref])>>]

NoEffective == [isTest |-> FALSE, via |-> "none", isSlow |-> FALSE, tags |-> <<>>, api |-> <<>>]

InitOrder ==
    /\ InitWith("order", <<>>, <<>>, {})
    /\ apiCall = NoRequest
    /\ \E set \in SUBSET Annotations :
          /\ Cardinality(set) <= MaxAnnotations
          /\ worker = [pc |-> "annotating", set |-> set, todo |-> set, order |-> <<>>,
                       effective |-> NoEffective]

orderTrackVars == <<registeredSuites, now, phase, defining, classStage,
                    defined, describing, describes, runs, current, decorations, last,
                    mode, applied, docRank, declared, lastStored, firstStored, apiCall>>

\* the next decorator of the member runs
AnnotateNext(a) ==
    /\ worker.pc = "annotating"
    /\ a \in worker.todo
    /\ LET res == Annotate(storage, heap, "fA", a)
       IN  /\ storage' = StoreAll(storage, res.stores)
           /\ heap' = res.hp
    /\ worker' = [worker EXCEPT !.todo = @ \ {a}, !.order = Append(@, a)]
    /\ UNCHANGED orderTrackVars

\* suite() on the class: the record, the describe callback; then the test
\* callback's retrieval
SuiteResolves ==
    /\ worker.pc = "annotating"
    /\ worker.todo = {}
    /\ LET res == suite(storage, heap, "A")
           m == StoreAll(storage, res.stores)
       IN  /\ storage' = m
           /\ heap' = res.hp
           /\ worker' = [worker EXCEPT !.pc = "resolved",
                                       !.effective = Effective(m, res.hp, "fA")]
    /\ UNCHANGED orderTrackVars

NextOrder ==
    \/ \E a \in Annotations : AnnotateNext(a)
    \/ SuiteResolves

SpecOrder == InitOrder /\ [][NextOrder]_vars

(***************************************************************************)
(* The registry (C8, C9).                                                  *)
(***************************************************************************)
\* C8: the registry is a flat overwrite-by-key map: after any sequence of
\* stores, get(t) is the record of the most recent store under t and nothing
\* when there was none, has(t) holds exactly when a store under t took place,
\* and so a store under one token leaves every other token's record alone
C8_FlatOverwriteMap ==
    \A t \in Tokens :
        /\ get(storage, t) = lastStored[t]
        /\ has(storage, t) <=> lastStored[t] # NoRef

\* test() has just replaced the record of a method that had one, while other
\* tokens hold records of their own
C8_Witness ==
    /\ last.op \in {"test", "testOnly"}
    /\ get(storage, last.target) = Len(heap)
    /\ \E r \in 1..Len(heap) : heap[r] = Garbage
    /\ \E t \in Tokens \ {last.target} : has(storage, t)

\* C9: getAll yields every stored token once, in the order of the first
\* store under each; storing again under a token keeps its position
C9_FirstInsertionOrder ==
    /\ [i \in 1..Len(getAll(storage)) |-> getAll(storage)[i].token] = firstStored
    /\ \A i \in 1..Len(getAll(storage)) :
          getAll(storage)[i].ref = lastStored[getAll(storage)[i].token]

\* the token filed first was stored again after a second token was filed,
\* and it is still first
C9_Witness ==
    /\ Len(storage) >= 2
    /\ storage[1].ref > storage[2].ref
    /\ firstStored[1] = storage[1].token

(***************************************************************************)
(* Resolution (C10, C4).                                                   *)
(***************************************************************************)
\* a step in which suite() resolves: the describe callback buckets the
\* methods, or a test callback looks its API options up
Resolves == (describing # "none" /\ describing' = "none") \/ (current = <<>> /\ current' # <<>>)

\* what resolving every member yields from a registry
Resolution(m, hp) ==
    [c \in Classes |->
        [tests |-> TestMethods(c, m, hp),
         hooks |-> [h \in HookNames |-> HookMethods(c, m, hp, h)],
         api |-> [fn \in MethodsOf(c) |->
                    IF has(m, fn) THEN LookupApi(m, hp, fn, get(m, fn)) ELSE NoRef]]]

Ran(id) == Run(id).pc # "pending"
\* the API spec the callback of `id` works with ({}: none)
EffectiveApi(id) ==
    IF Run(id).apiOptions = NoRef THEN EmptyObj ELSE ApiOf(heap[Run(id).apiOptions])

\* a registry token matches a member by property-key name, by function name
\* or as the member's own function (its prototype slot)
Matches(t, fn) ==
    \/ t \in Keys /\ t = NameOf(fn)
    \/ t \in Fns \cup Classes /\ FunctionName(t) = NameOf(fn)
    \/ t = fn
\* field-level overwrite of `a` by `b`, the expectations field by field
MergeApi(a, b) ==
    IF "expect" \in DOMAIN a /\ "expect" \in DOMAIN b
    THEN Put(Spread(a, b), "expect", Spread(a.expect, b.expect))
    ELSE Spread(a, b)
RECURSIVE UnionApi(_, _)
\* the union of the api of the first n entries that match `fn`
UnionApi(n, fn) ==
    IF n = 0 THEN EmptyObj
    ELSE IF Matches(storage[n].token, fn) /\ HasApi(heap, storage[n].ref)
         THEN MergeApi(UnionApi(n - 1, fn), ApiOf(heap[storage[n].ref]))
         ELSE UnionApi(n - 1, fn)

KeyHits(fn) ==
    {i \in 1..Len(storage) : /\ storage[i].token \in Keys
                              /\ storage[i].token = NameOf(fn)
                              /\ HasApi(heap, storage[i].ref)}
NameHits(fn) ==
    {i \in 1..Len(storage) : /\ storage[i].token \in Fns \cup Classes
                              /\ FunctionName(storage[i].token) = NameOf(fn)
                              /\ HasApi(heap, storage[i].ref)}
IsFirstOf(r, hits) == \E i \in hits : r = storage[i].ref /\ \A j \in hits : i <= j

HasSlice(req, k, v) ==
    IF k = "status"
    THEN "expect" \in DOMAIN req /\ "status" \in DOMAIN req.expect /\ req.expect.status = v
    ELSE IF k = "expectBody"
    THEN /\ "expect" \in DOMAIN req
         /\ "body" \in DOMAIN req.expect
         /\ v \in DOMAIN req.expect.body
    ELSE IF k = "schema"
    THEN "expect" \in DOMAIN req /\ "schema" \in DOMAIN req.expect /\ req.expect.schema = v
    ELSE k \in DOMAIN req /\ req[k] = v

HasTest(fn) == applied[fn] \cap {"test", "testOnly"} # {}

\* C1: for a member decorated in the documented order, test() applied last,
\* the spec passed to processApiRequest contains every declared slice
C1_DocumentedOrderKeepsSlices ==
    \A id \in TestIds :
        (Run(id).called /\ HasTest(Entry(id).fn)) =>
            \A k \in DOMAIN declared[Entry(id).fn] :
                HasSlice(Run(id).request, k, declared[Entry(id).fn][k])

\* C2: whenever the body of a member decorated with ApiEndpoint and test()
\* is invoked, the Request Engine was called first and its response is among
\* the body's arguments, whatever the modifiers
C2_EndpointTestsGetResponse ==
    \A id \in TestIds :
        (/\ Run(id).args # "none"
         /\ "ApiEndpoint" \in applied[Entry(id).fn]
         /\ HasTest(Entry(id).fn)) =>
            Run(id).called /\ Run(id).args = "response"

\* the member's effective ApiSpec: what the API options retrieval yields
EffectiveOf(fn) == LookupApi(storage, heap, fn, get(storage, fn))

\* C3: the Request Engine is invoked for a test exactly when the member's
\* effective ApiSpec has method and path; an incomplete spec is never passed
\* on, and the body is then invoked without a response
C3_EngineIffComplete ==
    \A id \in TestIds :
        Run(id).pc \notin {"pending", "resolved"} =>
            /\ Run(id).called <=> IsApiTest(heap, EffectiveOf(Entry(id).fn))
            /\ Run(id).called =>
                  Truthy(Run(id).request, "method") /\ Truthy(Run(id).request, "path")
            /\ ~Run(id).called => Run(id).args = "plain"

(***************************************************************************)
(* What the decorators leave of a record (C5, C6, C7).                     *)
(***************************************************************************)
\* C5: a flag among only, skip, slow that any annotation applied to a member
\* sets is a flag the member is scheduled with, whatever the order
C5_FlagsCombineByOr ==
    \A d \in 1..Len(describes) :
        \A i \in 1..Len(describes[d].tests) :
            LET e == describes[d].tests[i]
            IN  /\ applied[e.fn] \cap {"only", "testOnly"} # {} => e.isOnly
                /\ "skip" \in applied[e.fn] => e.isSkip
                /\ "slow" \in applied[e.fn] => e.isSlow

MemberOps == {"test", "testOnly", "skip", "only", "tag", "slow", "ApiEndpoint",
              "PathParams", "QueryParams", "Headers", "RequestBody",
              "ExpectStatus", "ExpectBody", "ExpectSchema"}
\* the slice an annotation writes: modifier options, ApiSpec fields,
\* expectation fields
OwnOptions(op) ==
    IF op \in {"only", "testOnly"} THEN {"only"}
    ELSE IF op = "skip" THEN {"skip", "skipReason"}
    ELSE IF op = "tag" THEN {"tags"}
    ELSE IF op = "slow" THEN {"slow", "slowReason"}
    ELSE {}
OwnApi(op) ==
    IF op = "ApiEndpoint" THEN {"method", "path"}
    ELSE IF op = "PathParams" THEN {"pathParams"}
    ELSE IF op = "QueryParams" THEN {"queryParams"}
    ELSE IF op = "Headers" THEN {"headers"}
    ELSE IF op = "RequestBody" THEN {"body"}
    ELSE {}
OwnExpect(op) ==
    IF op = "ExpectStatus" THEN {"status"}
    ELSE IF op = "ExpectBody" THEN {"body"}
    ELSE IF op = "ExpectSchema" THEN {"schema"}
    ELSE {}
Kept(before, after, own) ==
    \A k \in (DOMAIN before) \ own : k \in DOMAIN after /\ after[k] = before[k]
Additive(before, after, op) ==
    /\ Kept(before.options, after.options, OwnOptions(op) \cup {"api"})
    /\ Kept(ApiOf(before), ApiOf(after), OwnApi(op) \cup {"expect"})
    /\ Kept(Field(ApiOf(before), "expect"), Field(ApiOf(after), "expect"), OwnExpect(op))

\* C6: an annotation applied to a member is additive on the record under
\* every token it writes: what the record held outside the annotation's own
\* slice it still holds, with the same value
C6_AnnotationsAreAdditive ==
    [][(last' # last /\ last'.op \in MemberOps /\ last'.target \in Fns) =>
         \A t \in last'.tokens :
            has(storage, t) =>
                Additive(heap[get(storage, t)], heap'[get(storage', t)], last'.op)]_vars

\* C7: the kind of the record filed under a token is the kind of the first
\* record filed under it: no step changes it
C7_KindFixedPerToken ==
    [][\A t \in Tokens :
          has(storage, t) => heap'[get(storage', t)].type = heap[get(storage, t)].type]_vars


\* C11: a run, processApiRequest included, leaves the records of the
\* registry as they are: no step of the run phase changes the registry or
\* a record reachable from it.
C11_RunLeavesRegistryUnchanged ==
    [][phase = "run" => (storage' = storage /\ heap' = heap)]_vars

\* the call under observation: what it was given, and the one transport
\* call it made
Given == apiCall.passed
Left == apiCall.pc # "entry"
Sent == apiCall.calls # <<>>
SixMethods == {"GET", "POST", "PUT", "DELETE", "PATCH", "HEAD"}
\* the method is one of the six, whatever its case
Supported(method) == \E v \in SixMethods : ToLowerCase[method] = ToLowerCase[v]

\* C12: for a method that is none of GET, POST, PUT, DELETE, PATCH, HEAD
\* the call fails with the unsupported-method error, and no transport
\* method has been called.
C12_UnsupportedMethodFailsUnsent ==
    (Left /\ ~Supported(Given.method)) =>
        /\ apiCall.pc = "failed"
        /\ apiCall.result.kind = "unsupported"
        /\ apiCall.calls = <<>>
C12_Witness ==
    /\ Given.method = "TRACE"
    /\ apiCall.pc = "failed"
    /\ apiCall.result.kind = "unsupported"

\* the keys of pathParams
ParamKeys(options) ==
    IF "pathParams" \in DOMAIN options
    THEN {options.pathParams[i].k : i \in DOMAIN options.pathParams}
    ELSE {}
ParamOf(options, key) ==
    (CHOOSE e \in {options.pathParams[i] : i \in DOMAIN options.pathParams} : e.k = key).v

C14_UnmatchedPlaceholderKept ==
    /\ Sent =>
        \A i \in DOMAIN Given.path :
            (\A key \in ParamKeys(Given) : Given.path[i] # PlaceholderOf[key]) =>
                apiCall.calls[1].url.path[i] = Given.path[i]
    /\ (Left /\ Supported(Given.method)) =>
        (Len(apiCall.calls) = 1 /\ apiCall.result.kind # "unsupported")
C14_Witness ==
    /\ Sent
    /\ Given.path = <<"/users/", "{id}", "/posts/", "{page}">>
    /\ ParamKeys(Given) = {"name", "id"}
    /\ apiCall.calls[1].url.path = <<"/users/", "7", "/posts/", "{page}">>

\* the pairs of a query string with one key, and the values of pairs
KeyPairs(query, key) == SelectSeq(query, LAMBDA p : p[1] = FormEncode(key))
ValuesOf(pairs) == [i \in DOMAIN pairs |-> pairs[i][2]]
\* the position of a key in the map's key order
KeyIndex(entries, name) == CHOOSE j \in DOMAIN entries : FormEncode(entries[j].k) = name

\* C15: in the query string of the dispatched URL a key with an array value
\* has one pair per element, in array order, every other key has exactly
\* one pair, with the stringified value, there are no other pairs, and the
\* pairs come in the key order of the map (keys and values form-encoded).
C15_QueryPairsPerElementInOrder ==
    (Sent /\ "queryParams" \in DOMAIN Given) =>
        LET query == apiCall.calls[1].url.query
            entries == Given.queryParams
        IN  /\ \A j \in DOMAIN entries :
                 ValuesOf(KeyPairs(query, entries[j].k)) =
                    IF entries[j].v.t = "array"
                    THEN [i \in DOMAIN entries[j].v.a |-> FormEncode(entries[j].v.a[i])]
                    ELSE <<FormEncode(StringOf(entries[j].v))>>
            /\ \A i \in DOMAIN query :
                 \E j \in DOMAIN entries : query[i][1] = FormEncode(entries[j].k)
            /\ \A i, n \in DOMAIN query :
                 i < n => KeyIndex(entries, query[i][1]) <= KeyIndex(entries, query[n][1])
C15_Witness ==
    /\ Sent
    /\ "queryParams" \in DOMAIN Given
    /\ Len(Given.queryParams) = 3
    /\ apiCall.calls[1].url.query =
          <<<<"limit", "3">>, <<"tag", "x">>, <<"tag", "y">>, <<"flag", "true">>>>

\* no pair comes of queryParams: absent, empty, or empty arrays only
NoPair(options) ==
    \/ "queryParams" \notin DOMAIN options
    \/ \A j \in DOMAIN options.queryParams :
          options.queryParams[j].v.t = "array" /\ options.queryParams[j].v.a = <<>>

\* C16: when queryParams is absent, empty, or yields no pair, the
\* dispatched URL is the substituted path and nothing more: no `?` (or `&`)
\* and no query string follow it.
C16_NoPairNoQuestionMark ==
    (Sent /\ NoPair(Given)) =>
        /\ apiCall.calls[1].url.sep = ""
        /\ apiCall.calls[1].url.query = <<>>
        /\ Len(apiCall.calls[1].url.path) = Len(Given.path)
C16_Witness ==
    /\ Sent
    /\ "queryParams" \in DOMAIN Given
    /\ Given.queryParams = <<[k |-> "tag", v |-> ArrV(<<>>)]>>
    /\ apiCall.calls[1].url.sep = ""
    /\ apiCall.calls[1].url.path = <<"/a/", "7", "/b/", "7">>

\* the headers the caller declared, and a structured (non-string) body
Declared == Field(Given, "headers")
Structured == "body" \in DOMAIN Given /\ Given.body.t # "string"

C17_WitnessAdded ==
    /\ Sent
    /\ Structured
    /\ Declared = [Accept |-> "application/json"]
    /\ apiCall.calls[1].headers =
          ("Content-Type" :> "application/json") @@ [Accept |-> "application/json"]

\* a string body, and a declared content type that includes application/json
StringBody == "body" \in DOMAIN Given /\ Given.body.t = "string"
JsonDeclared == IncludesJson(Declared, "Content-Type") \/ IncludesJson(Declared, "content-type")

C19_ExactlyOneVerbCall ==
    /\ Len(apiCall.calls) <= 1
    /\ (Left /\ Supported(Given.method)) =>
          /\ Len(apiCall.calls) = 1
          /\ \E v \in SixMethods :
                /\ ToLowerCase[v] = ToLowerCase[Given.method]
                /\ apiCall.calls[1].method = ToLowerCase[v]
    /\ Sent =>
          /\ apiCall.calls[1].url = FinishedUrl(Given)
          /\ apiCall.calls[1].headers = RequestHeaders(Given)
          /\ apiCall.calls[1].data =
                PlaywrightData(RequestHeaders(Given), RequestData(Given))
C19_Witness ==
    /\ apiCall.pc = "returned"
    /\ Given.method = "PATCH"
    /\ Len(apiCall.calls) = 1
    /\ apiCall.calls[1].method = "patch"
    /\ apiCall.calls[1].url =
          [path |-> <<"/search", "?", "q=1">>, sep |-> "&", query |-> <<<<"q", "a+b">>>>]
    /\ apiCall.calls[1].data = <<John>>

\* the transport has answered, and what it answered
Answered == apiCall.response # <<>>
StatusExpected == "expect" \in DOMAIN Given /\ "status" \in DOMAIN Given.expect

C20_WitnessPassed ==
    /\ apiCall.pc = "returned"
    /\ StatusExpected
    /\ "body" \in DOMAIN Given.expect
    /\ apiCall.response = <<[status |-> 200, body |-> <<User1>>]>>
C20_WitnessNoExpectations ==
    /\ apiCall.pc = "returned"
    /\ "expect" \notin DOMAIN Given
    /\ apiCall.response[1].status = 404

\* the body expectations of the call, and whether the loop got to any
Expectations == Given.expect.body
Judged == apiCall.validated # <<>>
\* the declared value is an element of the array, or a substring of the string
ElementOrSubstring(wanted, value) ==
    \/ value.t = "array" /\ \E i \in DOMAIN value.f : value.f[i] = wanted
    \/ value.t = "string" /\ wanted.t = "string" /\ IsSubstring(wanted.v, value.v)
\* what the claim asks of the i-th expectation and the value extracted for it
Holds(i) ==
    LET e == Expectations[i].v
        value == apiCall.validated[i]
    IN  CASE e.assertion = "toBeDefined" -> value # JUndefined
          [] e.assertion = "toEqual" -> value = e.value
          [] e.assertion = "toContain" -> ElementOrSubstring(e.value, value)
          [] OTHER -> FALSE
KnownKind(i) == Expectations[i].v.assertion \in {"toBeDefined", "toEqual", "toContain"}

C21_WitnessDeepEqual ==
    /\ apiCall.pc = "returned"
    /\ Judged
    /\ Expectations = <<[k |-> <<"tags">>,
                         v |-> Expectation("toEqual", JArr([i \in {"0"} |-> JStr("a")]))]>>
C21_WitnessFailed ==
    /\ apiCall.pc = "failed"
    /\ Judged
    /\ Expectations[1].v = Expectation("toEqual", JStr("Jo"))
    /\ apiCall.validated = <<JStr("John")>>

\* the call has expectations on the body, one of them of an unknown kind
HasExpectations == "expect" \in DOMAIN Given /\ "body" \in DOMAIN Given.expect
HasUnknownKind ==
    HasExpectations /\ \E i \in DOMAIN Expectations : ~KnownKind(i)
Settled == apiCall.pc \in {"returned", "failed"}

\* C22 as stated: with an expectation of an unknown kind the call fails
\* with the unsupported-assertion error, whatever the response.
C22_UnknownKindFailsForEveryResponse ==
    (HasUnknownKind /\ Answered /\ Settled) =>
        (apiCall.pc = "failed" /\ apiCall.result.kind = "unsupportedAssertion")

\* C22: with an expectation of an unknown kind the call never returns a
\* response; when the loop gets to that expectation (the status check
\* passed, the body was JSON, the expectations before it passed) the call
\* fails with the unsupported-assertion error, which reaches the caller;
\* otherwise it fails with the failure of the earlier check.
C22_UnknownKindNeverReturns ==
    HasUnknownKind =>
        /\ apiCall.pc # "returned"
        /\ (Answered /\ Settled) =>
              /\ apiCall.pc = "failed"
              /\ apiCall.thrown = <<Thrown(apiCall.result.kind)>>
              /\ IF Judged /\ ~KnownKind(Len(apiCall.validated))
                 THEN apiCall.result.kind = "unsupportedAssertion"
                 ELSE apiCall.result.kind \in {"assertion", "parse"}
C22_Witness ==
    /\ apiCall.pc = "failed"
    /\ HasUnknownKind
    /\ apiCall.response = <<[status |-> 200, body |-> <<User1>>]>>
    /\ Len(apiCall.validated) = 2
    /\ apiCall.result.kind = "unsupportedAssertion"
    /\ apiCall.thrown = <<Thrown("unsupportedAssertion")>>

\* the values that dot-path traversal reaches in the response bodies of the
\* model; every other path of a body is undefined
ReachedValues ==
    {<<User1, <<"id">>, JNum("1")>>,
     <<User1, <<"name">>, JStr("John")>>,
     <<User1, <<"tags">>, JArr([i \in {"0"} |-> JStr("a")])>>,
     <<User1, <<"tags", "0">>, JStr("a")>>,
     <<Profiled, <<"id">>, JNum("1")>>,
     <<Profiled, <<"profile", "city">>, JStr("Oslo")>>,
     <<Unprofiled, <<"id">>, JNum("1")>>}
Reached(body, path) ==
    IF \E r \in ReachedValues : r[1] = body /\ r[2] = path
    THEN (CHOOSE r \in ReachedValues : r[1] = body /\ r[2] = path)[3]
    ELSE JUndefined

\* C23: dot-path extraction yields a value for every body and path, never an
\* error: the value reached segment by segment, and undefined when a
\* segment is absent or an intermediate value is null.
C23_ExtractionNeverRaises ==
    /\ (Settled /\ Answered /\ HasExpectations /\ apiCall.response[1].body # <<>>
          /\ StatusPasses(Given, apiCall.response[1].status)) =>
          /\ Judged
          /\ apiCall.result.kind \in {"response", "assertion", "unsupportedAssertion"}
    /\ \A i \in DOMAIN apiCall.validated :
          apiCall.validated[i] = Reached(apiCall.response[1].body[1], Expectations[i].k)
C23_Witness ==
    /\ Settled
    /\ Judged
    /\ apiCall.response[1].body = <<Unprofiled>>
    /\ Expectations[1].k = <<"profile", "city">>
    /\ apiCall.validated = <<JUndefined>>
C23_WitnessAbsent ==
    /\ Settled
    /\ Judged
    /\ apiCall.response[1].body = <<User1>>
    /\ Len(Expectations) = 2
    /\ Expectations[2].k = <<"address", "city", "code">>
    /\ apiCall.validated[2] = JUndefined

\* an object without one of its properties
Without(obj, k) == [x \in (DOMAIN obj) \ {k} |-> obj[x]]
\* the call as it awaited the transport, had expect.schema not been declared
Unschemed ==
    [apiCall EXCEPT !.pc = "awaiting",
                    !.options = [@ EXCEPT !.expect = Without(@, "schema")],
                    !.response = <<>>, !.validated = <<>>, !.thrown = <<>>,
                    !.result = Result("none", 0, 0)]
\* what comes of a call for a response
Outcome(call, response) ==
    LET after == Responded(call, response.status, response.body)
    IN  IF after.pc = "parsing" THEN Parsed(after) ELSE after
SchemaDeclared == "expect" \in DOMAIN Given /\ "schema" \in DOMAIN Given.expect

C24_WitnessNotJson ==
    /\ apiCall.pc = "returned"
    /\ SchemaDeclared
    /\ ~HasExpectations
    /\ apiCall.response = <<[status |-> 404, body |-> <<>>]>>

\* C25: when the transport call fails, the call fails with an error that
\* wraps the transport's error and carries the URL of the attempt; no
\* response is returned and no expectation is evaluated.
C25_TransportErrorWrappedWithUrl ==
    (apiCall.result.kind = "transport") =>
        /\ apiCall.pc = "failed"
        /\ apiCall.response = <<>>
        /\ apiCall.validated = <<>>
        /\ Len(apiCall.thrown) = 1
        /\ apiCall.thrown[1].cause # <<>>
        /\ apiCall.thrown[1].url = <<apiCall.calls[1].url>>

\* the calls of the run so far, and whether the runner has called anything
Calls == worker.log
Started == worker.pc # "collected" /\ Runnable(worker.block) # {}

Pos(fn) == CHOOSE i \in DOMAIN SuiteMethods : SuiteMethods[i] = fn
DeclaredHooks(hookName) ==
    SelectSeq(SuiteMethods, LAMBDA fn : worker.kinds[Pos(fn)] = hookName)
\* the calls made for a test, as <<call, method>>
StepsOf(t) ==
    LET slice == SelectSeq(Calls, LAMBDA e : e.test = t)
    IN  [i \in DOMAIN slice |-> <<slice[i].call, slice[i].method>>]
HookSteps(hookName) ==
    LET hooks == DeclaredHooks(hookName)
    IN  [i \in DOMAIN hooks |-> <<hookName, hooks[i]>>]
\* what the claim asks for a test: before hooks, engine if the test
\* declares an endpoint, body, after hooks
StepsWanted(t) ==
    LET fn == worker.block.tests[t].fn
    IN  HookSteps("beforeEach")
        \o (IF worker.kinds[Pos(fn)] \in {"api", "onlyApi"} THEN <<<<"engine", fn>>>> ELSE <<>>)
        \o <<<<"body", fn>>>>
        \o HookSteps("afterEach")
StepRank(e) ==
    CASE e.call = "beforeEach" -> 1 [] e.call = "engine" -> 2
      [] e.call = "body" -> 3 [] e.call = "afterEach" -> 4 [] OTHER -> 0
Passed == worker.ran \ worker.failed

\* the tests run in declaration order, one after the other with no step of
\* one among the steps of another; the steps of a test come in the order
\* before hooks (in declaration order), engine, body, after hooks (in
\* declaration order)
StepsOrdered ==
    \A i, j \in DOMAIN Calls :
        (i < j /\ Calls[i].test # 0 /\ Calls[j].test # 0) =>
            \/ Pos(worker.block.tests[Calls[i].test].fn)
                  < Pos(worker.block.tests[Calls[j].test].fn)
            \/ /\ Calls[i].test = Calls[j].test
               /\ \/ StepRank(Calls[i]) < StepRank(Calls[j])
                  \/ /\ StepRank(Calls[i]) = StepRank(Calls[j])
                     /\ Calls[i].call \in HookNames
                     /\ Pos(Calls[i].method) < Pos(Calls[j].method)

\* C27: the steps of the run are ordered test by test, and every test that
\* passes has had all its steps: the before hooks, the engine if it
\* declares an endpoint, the body, the after hooks.
C27_StepsInOrderPerTest ==
    /\ StepsOrdered
    /\ \A t \in Passed : StepsOf(t) = StepsWanted(t)

\* the calls made for a test on the instance, the body without its name: the
\* hook sequence around the body
ShapeOf(t) ==
    LET slice == SelectSeq(Calls, LAMBDA e : e.test = t /\ e.call # "engine")
    IN  [i \in DOMAIN slice |->
            <<slice[i].call, IF slice[i].call = "body" THEN "" ELSE slice[i].method>>]
\* the sequence for a test, given the call that threw if one did: it is
\* made of the declared hooks alone
ShapeWanted(t) ==
    LET thrown == SelectSeq(Calls, LAMBDA e : e.test = t /\ e.threw)
        before == HookSteps("beforeEach")
        after == HookSteps("afterEach")
    IN  IF thrown = <<>> \/ thrown[1].call = "body"
        THEN before \o << <<"body", "">> >> \o after
        ELSE IF thrown[1].call = "engine" THEN before \o after
        ELSE SelectSeq(before, LAMBDA s : Pos(s[2]) <= Pos(thrown[1].method)) \o after

\* C28: the sequence before hooks, body, after hooks of a test that has
\* run is the one the declared hooks give, with or without only, slow and
\* tags on the test.
C28_ModifiersKeepHookOrder ==
    \A t \in worker.ran : ShapeOf(t) = ShapeWanted(t)
C28_Witness ==
    /\ worker.pc = "done"
    /\ worker.kinds = <<"beforeEach", "only", "afterEach", "test">>
    /\ Passed = {1}
    /\ ShapeOf(1) = <<<<"beforeEach", "f1">>, <<"body", "">>, <<"afterEach", "f3">>>>
C28_WitnessSlowTagged ==
    /\ worker.pc = "done"
    /\ worker.kinds = <<"beforeEach", "slow", "afterEach", "test">>
    /\ Passed = {1, 2}
    /\ {<<1, "slow">>, <<1, "tag">>} \subseteq worker.annotations
    /\ ShapeOf(1) = ShapeOf(2)
    /\ Len(ShapeOf(1)) = 3

\* the tests the runner is done with: those it ran to the end of their
\* per-test-after hooks and those it failed without running
Completed == worker.ran \cup worker.abandoned

\* the calls of once-after hooks
AfterAllCalls == {i \in DOMAIN Calls : Calls[i].call = "afterAll"}

BeforeFailed(t) ==
    \E i \in DOMAIN Calls : Calls[i].test = t /\ Calls[i].call = "beforeEach" /\ Calls[i].threw

\* C30: when a per-test-before hook throws, the test is failed, neither its
\* body nor any of its per-test-after hooks is called, and the tests after
\* it still run.
C30_FailedBeforeHookSkipsBodyAndAfterHooks ==
    /\ \A t \in DOMAIN worker.block.tests :
          BeforeFailed(t) =>
             /\ t \in worker.failed
             /\ \A i \in DOMAIN Calls :
                   Calls[i].test = t => Calls[i].call \notin {"body", "engine", "afterEach"}
    /\ worker.pc = "done" => Completed = Runnable(worker.block)

\* the calls of processApiRequest made for test t, and those that threw
EngineCalls(t) == {i \in DOMAIN Calls : Calls[i].test = t /\ Calls[i].call = "engine"}
EngineFailed(t) == \E i \in EngineCalls(t) : Calls[i].threw

\* C31: when processApiRequest throws for a test, that test is failed, the
\* runner is given the very error thrown, the body of the test is not
\* called, processApiRequest is not called again for it, and the run goes
\* on to the end of the block.
C31_EngineErrorFailsThatTestOnly ==
    /\ \A t \in DOMAIN worker.block.tests :
          EngineFailed(t) =>
             /\ t \in worker.failed
             /\ {r.error : r \in {x \in worker.reported : x.test = t}}
                   = {Calls[i].error[1] : i \in EngineCalls(t)}
             /\ Cardinality(EngineCalls(t)) = 1
             /\ \A i \in DOMAIN Calls : Calls[i].test = t => Calls[i].call # "body"
    /\ worker.pc = "done" => Completed = Runnable(worker.block)
C31_Witness ==
    /\ worker.pc = "done"
    /\ worker.kinds = <<"api", "api", "test", "afterEach">>
    /\ worker.failed = {1}
    /\ worker.reported = {[test |-> 1, error |-> Thrown("transport")]}
    /\ worker.ran = {1, 2, 3}
    /\ \E i \in DOMAIN Calls : Calls[i].test = 2 /\ Calls[i].call = "body"

\* a once-before hook has thrown
BeforeAllFailed ==
    \E i \in DOMAIN Calls : Calls[i].call = "beforeAll" /\ Calls[i].threw

\* C32: in a run of a block with one once-before hook, which throws, and
\* two tests, the bodies of both tests are called, and the calls are in
\* declaration order.
C32_TestsRunAfterThrowingBeforeAll ==
    (/\ worker.pc = "done"
     /\ BeforeAllFailed
     /\ Len(DeclaredHooks("beforeAll")) = 1
     /\ Cardinality(Runnable(worker.block)) = 2) =>
        /\ \A t \in Runnable(worker.block) :
              \E i \in DOMAIN Calls : Calls[i].test = t /\ Calls[i].call = "body"
        /\ StepsOrdered

\* the first resolution read for class c has been made: its describe
\* callback has bucketed and registered its members
Resolved(c) == \E d \in DOMAIN describes : describes[d].cls = c
\* the tokens of a suite and its members
OwnTokens(c) == {c} \cup MethodsOf(c)
\* this step is a decorator application that stores under a token of c
WritesFor(c) ==
    /\ decorations' = decorations + 1
    /\ last'.tokens \cap OwnTokens(c) # {}
\* the record the API options retrieval of a registered test returns
ReadFor(m, hp, e) ==
    LET ref == IF e.via = "only" THEN LookupApiOnly(m, hp, e.fn, e.metadata)
               ELSE LookupApi(m, hp, e.fn, e.metadata)
    IN  IF ref = NoRef THEN <<>> ELSE <<hp[ref]>>
\* no decorator stores under a token of a class once it is resolved
WritesBeforeReads == \A c \in Classes : Resolved(c) => ~WritesFor(c)
\* what the retrieval of a registered test is to return stays as it is
ReadsStable ==
    \A id \in TestIds :
        (Run(id).pc = "pending" /\ Entry(id).via # "skip") =>
            ReadFor(storage', heap', Entry(id)) = ReadFor(storage, heap, Entry(id))

\* C33: once the members of a class have been resolved, no decorator writes
\* a record of the class or of its members, and no step changes the record
\* a later retrieval for a test of the class returns.
C33_TwoPhaseLifecycle == [][WritesBeforeReads /\ ReadsStable]_vars

\* the five buckets of the block, the tests bucket read off the runner's
\* test entries
TestsBucket == [i \in DOMAIN worker.block.tests |-> worker.block.tests[i].fn]
Bucket(name) == IF name = "tests" THEN TestsBucket ELSE worker.block[name]
BucketNames == HookNames \cup {"tests"}
\* the bucket the record of a member asks for
BucketWanted(fn) ==
    LET rec == heap[get(storage, fn)]
    IN  IF rec.type = "hook" THEN rec.name ELSE "tests"
Places(name, fn) == {i \in DOMAIN Bucket(name) : Bucket(name)[i] = fn}

\* C34: every member with a record is in the bucket its record asks for,
\* once, and in no other; every bucket is in declaration order; the runner
\* has one test entry per member of the tests bucket and none for another.
C34_MembersBucketedOnce ==
    worker.pc # "idle" =>
        /\ \A k \in DOMAIN SuiteMethods :
              LET fn == SuiteMethods[k]
              IN  has(storage, fn) =>
                     \A name \in BucketNames :
                        Cardinality(Places(name, fn))
                           = IF name = BucketWanted(fn) THEN 1 ELSE 0
        /\ \A name \in BucketNames : \A i, j \in DOMAIN Bucket(name) :
              i < j => Pos(Bucket(name)[i]) < Pos(Bucket(name)[j])
C34_Witness ==
    /\ worker.pc = "done"
    /\ worker.ran = {1, 2}
    /\ worker.kinds = <<"beforeEach", "slow", "beforeEach", "api">>
    /\ Bucket("beforeEach") = <<"f1", "f3">>
    /\ TestsBucket = <<"f2", "f4">>
    /\ Bucket("beforeAll") = <<>>

\* C35: the request dispatched for a test comes from the annotations of its
\* own member: processApiRequest is called for a test only if ApiEndpoint
\* was applied to the member itself, whatever was applied to members of
\* other classes.
C35_CrossSuiteIsolation ==
    \A id \in TestIds :
        Run(id).called => "ApiEndpoint" \in applied[Entry(id).fn]

\* one order of the annotations, the same for every set
FixedOrder == <<"test", "skip", "only", "slow", "tag", "ApiEndpoint", "PathParams",
                "QueryParams", "Headers", "RequestBody", "ExpectStatus", "ExpectBody",
                "ExpectSchema">>
RECURSIVE InOrderOf(_, _, _)
\* the registry after the annotations of `set` were applied in the order `seq`
InOrderOf(reg, seq, set) ==
    IF seq = <<>> THEN reg
    ELSE InOrderOf(IF Head(seq) \in set
                   THEN Apply(reg, Annotate(reg.m, reg.hp, "fA", Head(seq))) ELSE reg,
                   Tail(seq), set)
\* what the suite uses for the member when its annotations came in that order
EffectiveInFixedOrder(set) ==
    LET reg == InOrderOf([m |-> <<>>, hp |-> <<>>], FixedOrder, set)
        done == Apply(reg, suite(reg.m, reg.hp, "A"))
    IN  Effective(done.m, done.hp, "fA")

\* C36: what the suite uses for a member is the same for every order of a
\* set of annotations: in whatever order they were applied, it is what
\* applying them in one fixed order gives.
C36_AnnotationOrderIrrelevant ==
    worker.pc = "resolved" => worker.effective = EffectiveInFixedOrder(worker.set)

\* the options of the member's record, and its flags
MemberOptions == heap[get(storage, "fA")].options
Flag(k) == k \in DOMAIN MemberOptions /\ MemberOptions[k] = TRUE
\* the runner entries registered for the member
MemberEntries ==
    LET tests == Block("A", storage, heap).tests
    IN  {i \in DOMAIN tests : tests[i].fn = "fA"}

\* C37: a test member is registered once, through test.only when its
\* options have only (also when they have skip as well), through test.skip
\* when they have skip and not only, and through test otherwise.
C37_OnlyBeforeSkip ==
    (worker.pc = "resolved" /\ has(storage, "fA") /\ heap[get(storage, "fA")].type = "test") =>
        /\ Cardinality(MemberEntries) = 1
        /\ worker.effective.isTest
        /\ worker.effective.via =
              IF Flag("only") THEN "only" ELSE IF Flag("skip") THEN "skip" ELSE "test"
C37_Witness ==
    /\ worker.pc = "resolved"
    /\ worker.order = <<"skip", "only">>
    /\ Flag("only")
    /\ Flag("skip")
    /\ worker.effective.via = "only"

\* the entries of a map in another order of its keys
Orders(n) == {p \in [1..n -> 1..n] : \A i, j \in 1..n : i # j => p[i] # p[j]}
Reordered(entries, p) == [i \in DOMAIN entries |-> entries[p[i]]]

\* C38: the path of the URL dispatched is what substitution gives for every
\* order of the keys of pathParams, also when a value is the placeholder of
\* another key.
C38_SubstitutionOrderIndependent ==
    (Sent /\ "pathParams" \in DOMAIN Given) =>
        \A p \in Orders(Len(Given.pathParams)) :
            SubstitutePath(Given.path, Reordered(Given.pathParams, p))
               = apiCall.calls[1].url.path

\* the describe blocks registered for class c, and the suite records stored
\* under it by suite()
BlocksOf(c) == {d \in DOMAIN describes : describes[d].cls = c}
SuiteStoresOf(c) == {i \in DOMAIN worker.stores : worker.stores[i] = c}

\* C39: however often suite() is applied to a class, its suite record is
\* stored once and one describe block is registered for it.
C39_SuiteRegisteredOnce ==
    worker.pc = "register" =>
        \A c \in Classes :
            /\ Cardinality(BlocksOf(c)) <= 1
            /\ Cardinality(SuiteStoresOf(c)) <= 1

\* C40: every class suite() was applied to has its suite record stored and
\* a describe block of its own with its tests.
C40_EveryDecoratedClassRegistered ==
    worker.pc = "register" =>
        \A k \in DOMAIN worker.calls :
            LET c == worker.calls[k].cls
            IN  /\ has(storage, c)
                /\ heap[get(storage, c)].type = "suite"
                /\ \E d \in BlocksOf(c) : Len(describes[d].tests) = 1

====
